---- MODULE Spec2Model ----
(***************************************************************************)
(* Funnel analytics engine of the tpsq application: the event ingestion    *)
(* endpoint (track_event) and the conversion submission endpoint           *)
(* (submit_early_access) of src/tpsq/views/early_signup.py, running as     *)
(* concurrent request handlers over the tables of src/tpsq/models.py.      *)
(*                                                                         *)
(* Every ORM call is one SQL statement and one step of a worker; the       *)
(* statements inside `with transaction.atomic()` are written to the        *)
(* worker's pending set and reach the tables at commit (READ COMMITTED).   *)
(***************************************************************************)
EXTENDS Naturals, Integers, Sequences, FiniteSets, Bags, TLC

VARIABLES
    sessions,   \* UserSession rows: session_id -> row
    events,     \* FunnelEvent rows: a bag of [session, event_type, timestamp]
    surveys,    \* SurveyResponse rows: a set of rows
    signups,    \* EarlyAccessSignup rows: a set of rows
    now,        \* timezone.now(), in days
    pc,         \* worker -> the statement it is at
    req,        \* worker -> request.data of the request it handles (or handled last)
    loc,        \* worker -> session_id and session (the model object) of the handler
    txn,        \* worker -> rows written inside transaction.atomic(), not yet committed
    resp,       \* worker -> the Response returned for req
    nreq,       \* number of requests received so far
    log,        \* worker -> what its request has changed in the tables so far (history)
    seen,       \* worker -> the EarlyAccessSignup rows when its request arrived (history)
    daily,      \* DailyStats rows: a set of rows
    cache,      \* django cache: key -> value
    job,        \* the compute_daily_stats command: its position and locals
    view,       \* the caller of AnalyticsCalculator: what it asked and what it got
    run         \* process of compute_daily_stats --date -> its position and locals

\* The variables of the tracking and submission endpoints.
rvars == <<sessions, events, surveys, signups, now, pc, req, loc, txn, resp, nreq, log, seen>>

\* The variables of the aggregation job and the analytics reads.
avars == <<daily, cache, job, view, run>>

vars == <<sessions, events, surveys, signups, now, pc, req, loc, txn, resp, nreq, log, seen,
          daily, cache, job, view, run>>

----------------------------------------------------------------------------
(* Bounds *)

\* Requests received in one behaviour.
MaxRequests == 2
\* Days the clock can advance.
MaxDay == 1

\* Days of history before the day of a backfill.
HistoryDays == 7

\* Days of history before the day of a dashboard call.
TrendDays == 2

\* The request handlers running concurrently.
Workers == {"w1", "w2"}

----------------------------------------------------------------------------
(* Strings: a text is a sequence of one-character strings *)

LowerChar(c) ==
    CASE c = "A" -> "a"
      [] c = "B" -> "b"
      [] OTHER -> c

\* str.lower()
Lower(s) == [i \in DOMAIN s |-> LowerChar(s[i])]

RECURSIVE LStrip(_)
LStrip(s) == IF s # <<>> /\ Head(s) = " " THEN LStrip(Tail(s)) ELSE s

RECURSIVE RStrip(_)
RStrip(s) ==
    IF s # <<>> /\ s[Len(s)] = " " THEN RStrip(SubSeq(s, 1, Len(s) - 1)) ELSE s

\* str.strip()
Strip(s) == RStrip(LStrip(s))

\* email__iexact
IExact(a, b) == Lower(a) = Lower(b)

----------------------------------------------------------------------------
(* Identifiers *)

\* Texts that uuid.UUID() accepts, with the UUID each denotes.
UuidTexts == [u1 |-> "u1", U1 |-> "u1", u2 |-> "u2"]

IsValidUuid(text) == text \in DOMAIN UuidTexts

\* UUIDField.to_python
ToUuid(text) == UuidTexts[text]

\* The i-th value uuid.uuid4() returns.
GeneratedUuid(i) == "g" \o ToString(i)

GeneratedUuids == {GeneratedUuid(i) : i \in 1..(MaxRequests + 1)}

\* FunnelEvent.EVENT_TYPES
EVENT_TYPES ==
    {"ad_impression", "ad_click", "page_view", "survey_start", "survey_complete",
     "form_focus", "form_start", "form_error", "signup_attempt", "signup_success",
     "page_exit"}

----------------------------------------------------------------------------
(* Request inputs *)

SessionIdInputs == {"u1", "not-a-uuid", ""}

EventTypeInputs == {"page_view", "survey_start", "page_exit", "invalid_event", ""}

\* request.data["metadata"]: absent, not a dict, or a dict whose time_on_page is
\* missing, a string, or an integer number of milliseconds.
NoMeta == [kind |-> "absent", time_on_page |-> "missing", ms |-> 0]

IntMeta(n) == [kind |-> "dict", time_on_page |-> "int", ms |-> n]

MetaInputs ==
    {NoMeta, [kind |-> "dict", time_on_page |-> "str", ms |-> 0], IntMeta(2500),
     [kind |-> "not_dict", time_on_page |-> "missing", ms |-> 0]}

EmailInputs == {<<"a">>, <<" ", "A">>, <<"b">>, <<" ">>}

NameInputs == {<<"n">>, <<" ">>}

PreferenceInputs == {"", "updates"}

\* data.get("time_to_select") is None when absent; data.get("changes_made", 0)
NoSelection == [time_to_select |-> {}, changes_made |-> 0]

SelectionInputs == {NoSelection, [time_to_select |-> {3}, changes_made |-> 1]}

----------------------------------------------------------------------------
(* Rows and locals *)

\* UserSession field defaults (models.py) with auto_now_add / auto_now at t.
NewSession(t) ==
    [page_views |-> 0, time_on_site |-> 0, is_bounce |-> TRUE,
     first_seen |-> t, last_activity |-> t]

SessionFields == {"page_views", "time_on_site", "is_bounce", "first_seen", "last_activity"}

NoReq ==
    [op |-> "none", rid |-> 0, session_id |-> "", event_type |-> "", metadata |-> NoMeta,
     email |-> <<>>, name |-> <<>>, preference |-> "", selection |-> NoSelection]

NoLoc == [session_id |-> "", session |-> NewSession(0)]

NoTxn == [survey |-> {}, created |-> FALSE, signup |-> {}]

NoResp == [status |-> 0, kind |-> "none"]

\* The command is not running. `fresh` is history: the last run was a forced
\* recomputation of `date` that succeeded; `again`: so was the run before it.
NoJob ==
    [pc |-> "idle", op |-> "none", date |-> 0, force |-> FALSE, returned |-> FALSE,
     fresh |-> FALSE, again |-> FALSE, end_date |-> 0, computed_count |-> 0,
     skipped_count |-> 0, visited |-> <<>>, faulted |-> {}, existing |-> {}]

NoView == [op |-> "none"]

\* Processes that run compute_daily_stats --date once, each one statement at a time.
Runners == {"j1", "j2"}

\* A process of the command before it has started: the date and force it was given,
\* the stats it read, the row update_or_create found (target) and the row written
\* inside transaction.atomic() and not yet committed (pending), what it returned;
\* and, as history, the rows of its date when it started, the row it committed and
\* when.
NoRun ==
    [pc |-> "idle", date |-> 0, force |-> FALSE, stats |-> {}, target |-> {},
     pending |-> {}, returned |-> FALSE, raised |-> FALSE, before |-> {},
     written |-> {}, commit_order |-> 0]

NoRuns == [j \in Runners |-> NoRun]

Response(status, kind) == [status |-> status, kind |-> kind]

----------------------------------------------------------------------------
(* History: what a step changes in the tables, read off the two states *)

Delta ==
    {<<"session_created", s, "">> : s \in DOMAIN sessions' \ DOMAIN sessions}
    \cup {<<"session_field", x[1], x[2]>> :
            x \in {y \in (DOMAIN sessions \cap DOMAIN sessions') \X SessionFields :
                     sessions'[y[1]][y[2]] # sessions[y[1]][y[2]]}}
    \cup {<<"event_created", e.session, e.event_type>> :
            e \in {f \in BagToSet(events') : CopiesIn(f, events') > CopiesIn(f, events)}}
    \cup {<<"survey_written", v.session, "">> : v \in surveys' \ surveys}
    \cup {<<"signup_created", g.session, "">> : g \in signups' \ signups}

Logged(w) ==
    /\ log' = [log EXCEPT ![w] = @ \cup Delta]
    /\ seen' = seen

\* A request arrives at worker w: the history of the previous one is dropped.
Arrived(w) ==
    /\ log' = [log EXCEPT ![w] = {}]
    /\ seen' = [seen EXCEPT ![w] = signups]

----------------------------------------------------------------------------
Init ==
    /\ sessions = <<>>
    /\ events = EmptyBag
    /\ surveys = {}
    /\ signups = {}
    /\ now = 0
    /\ pc = [w \in Workers |-> "idle"]
    /\ req = [w \in Workers |-> NoReq]
    /\ loc = [w \in Workers |-> NoLoc]
    /\ txn = [w \in Workers |-> NoTxn]
    /\ resp = [w \in Workers |-> NoResp]
    /\ nreq = 0
    /\ log = [w \in Workers |-> {}]
    /\ seen = [w \in Workers |-> {}]
    /\ daily = {}
    /\ cache = <<>>
    /\ job = NoJob
    /\ view = NoView
    /\ run = NoRuns

\* The handler returns: the session object goes; the response and the session
\* identifier the request was resolved to stay on record with the request.
Return(w, r) ==
    /\ pc' = [pc EXCEPT ![w] = "idle"]
    /\ loc' = [loc EXCEPT ![w].session = NewSession(0)]
    /\ txn' = [txn EXCEPT ![w] = NoTxn]
    /\ resp' = [resp EXCEPT ![w] = r]

Goto(w, label) == pc' = [pc EXCEPT ![w] = label]

----------------------------------------------------------------------------
(* get_or_create_session *)

\* uuid.uuid4(): a value no row and no running handler holds.
uuid4 ==
    LET used == DOMAIN sessions \cup {loc[q].session_id : q \in Workers}
        i == CHOOSE k \in 1..(MaxRequests + 1) :
                /\ GeneratedUuid(k) \notin used
                /\ \A j \in 1..(k - 1) : GeneratedUuid(j) \in used
    IN GeneratedUuid(i)

\* The statement after get_or_create_session returns, per handler.
AfterSession(w) == IF req[w].op = "track" THEN "create_event" ELSE "check_session"

\* uuid.UUID(session_id), then UserSession.objects.get(session_id=session_id)
GetSession(w) ==
    /\ pc[w] = "get_session"
    /\ LET sid == IF IsValidUuid(req[w].session_id)
                  THEN ToUuid(req[w].session_id)
                  ELSE uuid4
       IN IF sid \in DOMAIN sessions
          THEN /\ loc' = [loc EXCEPT ![w] = [session_id |-> sid, session |-> sessions[sid]]]
               /\ Goto(w, "touch_session")
          ELSE /\ loc' = [loc EXCEPT ![w] = [session_id |-> sid, session |-> NewSession(0)]]
               /\ Goto(w, "create_session")
    /\ UNCHANGED <<sessions, events, surveys, signups, now, req, txn, resp, nreq>>
    /\ Logged(w)

\* session.last_activity = timezone.now(); session.save(update_fields=["last_activity"])
TouchSession(w) ==
    /\ pc[w] = "touch_session"
    /\ LET sid == loc[w].session_id
       IN /\ sessions' = [sessions EXCEPT ![sid].last_activity = now]
          /\ loc' = [loc EXCEPT ![w].session.last_activity = now]
    /\ Goto(w, AfterSession(w))
    /\ UNCHANGED <<events, surveys, signups, now, req, txn, resp, nreq>>
    /\ Logged(w)

\* UserSession.objects.create(session_id=session_id, ...): session_id is unique, and
\* the IntegrityError leaves get_or_create_session for the handler's except clause.
CreateSession(w) ==
    /\ pc[w] = "create_session"
    /\ LET sid == loc[w].session_id
       IN IF sid \in DOMAIN sessions
          THEN /\ Return(w, Response(500, "error"))
               /\ UNCHANGED sessions
          ELSE /\ sessions' = [s \in DOMAIN sessions \cup {sid} |->
                                 IF s = sid THEN NewSession(now) ELSE sessions[s]]
               /\ loc' = [loc EXCEPT ![w].session = NewSession(now)]
               /\ Goto(w, AfterSession(w))
               /\ UNCHANGED <<txn, resp>>
    /\ UNCHANGED <<events, surveys, signups, now, req, nreq>>
    /\ Logged(w)

----------------------------------------------------------------------------
(* track_event *)

TrackRequest(sid, et, md, n) ==
    [op |-> "track", rid |-> n, session_id |-> sid, event_type |-> et, metadata |-> md,
     email |-> <<>>, name |-> <<>>, preference |-> "", selection |-> NoSelection]

\* track_event without its required-field check.
TrackEventUnchecked(w) ==
    /\ pc[w] = "idle"
    /\ nreq < MaxRequests
    /\ \E sid \in SessionIdInputs, et \in EventTypeInputs, md \in MetaInputs :
          /\ et # "page_exit" => md = NoMeta
          /\ req' = [req EXCEPT ![w] = TrackRequest(sid, et, md, nreq + 1)]
          /\ Goto(w, "get_session")
          /\ resp' = [resp EXCEPT ![w] = NoResp]
          /\ loc' = [loc EXCEPT ![w] = NoLoc]
          /\ UNCHANGED txn
    /\ nreq' = nreq + 1
    /\ Arrived(w)
    /\ UNCHANGED <<sessions, events, surveys, signups, now>>

\* A request arrives; `if not session_id or not event_type` answers 400.
TrackEvent(w) ==
    /\ pc[w] = "idle"
    /\ nreq < MaxRequests
    /\ \E sid \in SessionIdInputs, et \in EventTypeInputs, md \in MetaInputs :
          /\ et # "page_exit" => md = NoMeta
          /\ req' = [req EXCEPT ![w] = TrackRequest(sid, et, md, nreq + 1)]
          /\ IF sid = "" \/ et = ""
             THEN /\ resp' = [resp EXCEPT ![w] = Response(400, "required")]
                  /\ loc' = [loc EXCEPT ![w] = NoLoc]
                  /\ UNCHANGED <<pc, txn>>
             ELSE /\ Goto(w, "get_session")
                  /\ resp' = [resp EXCEPT ![w] = NoResp]
                  /\ loc' = [loc EXCEPT ![w] = NoLoc]
                  /\ UNCHANGED txn
    /\ nreq' = nreq + 1
    /\ Arrived(w)
    /\ UNCHANGED <<sessions, events, surveys, signups, now>>

\* FunnelEvent.objects.create(session=session, event_type=event_type, ...)
CreateEvent(w) ==
    /\ pc[w] = "create_event"
    /\ events' = events (+) SetToBag({[session |-> loc[w].session_id,
                                       event_type |-> req[w].event_type,
                                       timestamp |-> now]})
    /\ Goto(w, "save_session")
    /\ UNCHANGED <<sessions, surveys, signups, now, req, loc, txn, resp, nreq>>
    /\ Logged(w)

\* time_on_page // 1000 raises TypeError for a string.
MetricsRaise(et, md) ==
    et = "page_exit" /\ md.kind # "not_dict" /\ md.time_on_page = "str"

Max(a, b) == IF a >= b THEN a ELSE b

\* "Update session metrics based on event type", on the handler's session object.
UpdateMetrics(session, et, md) ==
    CASE et = "page_view" ->
            [session EXCEPT !.page_views = @ + 1, !.is_bounce = FALSE]
      [] et = "survey_start" ->
            [session EXCEPT !.is_bounce = FALSE]
      [] et = "page_exit" /\ md.kind # "not_dict" /\ md.time_on_page = "int" /\ md.ms # 0 ->
            [session EXCEPT !.time_on_site = Max(@, md.ms \div 1000)]
      [] OTHER -> session

\* Model.save(): every field of the object is written, auto_now sets last_activity.
SavedRow(session) == [session EXCEPT !.last_activity = now]

\* The metrics update, session.save() and the 201 response.
SaveSession(w) ==
    /\ pc[w] = "save_session"
    /\ IF MetricsRaise(req[w].event_type, req[w].metadata)
       THEN /\ Return(w, Response(500, "error"))
            /\ UNCHANGED sessions
       ELSE /\ sessions' = [sessions EXCEPT ![loc[w].session_id] =
                    SavedRow(UpdateMetrics(loc[w].session, req[w].event_type,
                                           req[w].metadata))]
            /\ Return(w, Response(201, "success"))
    /\ UNCHANGED <<events, surveys, signups, now, req, nreq>>
    /\ Logged(w)

----------------------------------------------------------------------------
(* submit_early_access *)

\* The request with the email stripped and not lowercased.
SubmitRequestNoLower(sid, email, name, pref, sel, n) ==
    [op |-> "submit", rid |-> n, session_id |-> sid, event_type |-> "", metadata |-> NoMeta,
     email |-> Strip(email), name |-> Strip(name), preference |-> pref, selection |-> sel]

SubmitRequest(sid, email, name, pref, sel, n) ==
    [op |-> "submit", rid |-> n, session_id |-> sid, event_type |-> "", metadata |-> NoMeta,
     email |-> Strip(Lower(email)), name |-> Strip(name), preference |-> pref,
     selection |-> sel]

\* The SurveyResponse row request r writes for session sid, created at t.
SurveyRow(sid, r, t) ==
    [session |-> sid, preference |-> r.preference,
     time_to_select |-> r.selection.time_to_select,
     changed_mind_count |-> r.selection.changes_made,
     created_at |-> t, by |-> r.rid]

\* A request arrives; email and name are normalised, and
\* `if not all([session_id, email, name])` answers 400.
SubmitEarlyAccess(w) ==
    /\ pc[w] = "idle"
    /\ nreq < MaxRequests
    /\ \E sid \in SessionIdInputs, email \in EmailInputs, name \in NameInputs,
          pref \in PreferenceInputs, sel \in SelectionInputs :
          LET r == SubmitRequest(sid, email, name, pref, sel, nreq + 1)
          IN /\ pref = "" => sel = NoSelection
             /\ req' = [req EXCEPT ![w] = r]
             /\ IF r.session_id = "" \/ r.email = <<>> \/ r.name = <<>>
                THEN /\ resp' = [resp EXCEPT ![w] = Response(400, "required")]
                     /\ loc' = [loc EXCEPT ![w] = NoLoc]
                     /\ UNCHANGED <<pc, txn>>
                ELSE /\ Goto(w, "get_session")
                     /\ resp' = [resp EXCEPT ![w] = NoResp]
                     /\ loc' = [loc EXCEPT ![w] = NoLoc]
                     /\ UNCHANGED txn
    /\ nreq' = nreq + 1
    /\ Arrived(w)
    /\ UNCHANGED <<sessions, events, surveys, signups, now>>

\* EarlyAccessSignup.objects.filter(session=session).first()
CheckSessionDuplicate(w) ==
    /\ pc[w] = "check_session"
    /\ IF \E g \in signups : g.session = loc[w].session_id
       THEN Return(w, Response(400, "duplicate_session"))
       ELSE /\ Goto(w, "check_email")
            /\ UNCHANGED <<loc, txn, resp>>
    /\ UNCHANGED <<sessions, events, surveys, signups, now, req, nreq>>
    /\ Logged(w)

\* The email check placed after the survey upsert, the upsert not in a transaction.
CheckEmailDuplicateLate(w) ==
    /\ pc[w] = "check_email"
    /\ IF \E g \in signups : IExact(g.email, req[w].email)
       THEN /\ surveys' = surveys \cup
                    {SurveyRow(loc[w].session_id, req[w], now)}
            /\ Return(w, Response(400, "duplicate_email"))
       ELSE /\ Goto(w, "txn_survey")
            /\ UNCHANGED <<surveys, loc, txn, resp>>
    /\ UNCHANGED <<sessions, events, signups, now, req, nreq>>
    /\ Logged(w)

\* EarlyAccessSignup.objects.filter(email__iexact=email).first()
CheckEmailDuplicate(w) ==
    /\ pc[w] = "check_email"
    /\ IF \E g \in signups : IExact(g.email, req[w].email)
       THEN Return(w, Response(400, "duplicate_email"))
       ELSE /\ Goto(w, "txn_survey")
            /\ UNCHANGED <<loc, txn, resp>>
    /\ UNCHANGED <<sessions, events, surveys, signups, now, req, nreq>>
    /\ Logged(w)

\* The survey upsert outside the transaction: written to the table at once.
TxnSurveyAutocommit(w) ==
    /\ pc[w] = "txn_survey"
    /\ LET sid == loc[w].session_id
           row == SurveyRow(sid, req[w], now)
       IN IF req[w].preference = ""
          THEN UNCHANGED surveys
          ELSE surveys' = {v \in surveys : v.session # sid} \cup {row}
    /\ Goto(w, "txn_signup")
    /\ UNCHANGED <<sessions, events, signups, now, req, loc, txn, resp, nreq>>
    /\ Logged(w)

\* get_or_create without the `if not created` branch: an existing response is kept.
TxnSurveyKeepFirst(w) ==
    /\ pc[w] = "txn_survey"
    /\ LET sid == loc[w].session_id
           found == {v \in surveys : v.session = sid}
       IN IF req[w].preference = ""
          THEN UNCHANGED txn
          ELSE /\ \A q \in Workers \ {w} : \A v \in txn[q].survey : v.session # sid
               /\ txn' = [txn EXCEPT
                     ![w].created = (found = {}),
                     ![w].survey = IF found = {}
                                   THEN {SurveyRow(sid, req[w], now)}
                                   ELSE found]
    /\ Goto(w, "txn_signup")
    /\ UNCHANGED <<sessions, events, surveys, signups, now, req, loc, resp, nreq>>
    /\ Logged(w)

\* Inside transaction.atomic(): SurveyResponse.objects.get_or_create(session=session,
\* defaults=...) and, if not created, the update of the row found (survey.save()).
\* The insert waits for another transaction's uncommitted row of the same session.
TxnSurvey(w) ==
    /\ pc[w] = "txn_survey"
    /\ LET sid == loc[w].session_id
           found == {v \in surveys : v.session = sid}
       IN IF req[w].preference = ""
          THEN UNCHANGED txn
          ELSE /\ \A q \in Workers \ {w} : \A v \in txn[q].survey : v.session # sid
               /\ txn' = [txn EXCEPT
                     ![w].created = (found = {}),
                     ![w].survey =
                        {SurveyRow(sid, req[w],
                                   IF found = {}
                                   THEN now
                                   ELSE (CHOOSE v \in found : TRUE).created_at)}]
    /\ Goto(w, "txn_signup")
    /\ UNCHANGED <<sessions, events, surveys, signups, now, req, loc, resp, nreq>>
    /\ Logged(w)

\* The unique constraints of EarlyAccessSignup: email (unique=True) and session
\* (OneToOneField).
SignupConflict(g, h) == g.email = h.email \/ g.session = h.session

\* What leaving `with transaction.atomic()` by an exception does to the rows the
\* transaction wrote: they are discarded.
Rollback(pending) == NoTxn

\* EarlyAccessSignup.objects.create(session=session, name=name, email=email, ...).
\* The insert waits for another transaction's uncommitted conflicting row; an
\* IntegrityError rolls the transaction back and reaches the handler's except clause.
TxnSignup(w) ==
    /\ pc[w] = "txn_signup"
    /\ LET g == [session |-> loc[w].session_id, email |-> req[w].email,
                 name |-> req[w].name, created_at |-> now, by |-> req[w].rid]
       IN /\ \A q \in Workers \ {w} : \A h \in txn[q].signup : ~SignupConflict(h, g)
          /\ IF \E h \in signups : SignupConflict(h, g)
             THEN /\ pc' = [pc EXCEPT ![w] = "idle"]
                  /\ loc' = [loc EXCEPT ![w].session = NewSession(0)]
                  /\ txn' = [txn EXCEPT ![w] = Rollback(txn[w])]
                  /\ resp' = [resp EXCEPT ![w] = Response(500, "error")]
             ELSE /\ txn' = [txn EXCEPT ![w].signup = {g}]
                  /\ Goto(w, "txn_save")
                  /\ UNCHANGED <<loc, resp>>
    /\ UNCHANGED <<sessions, events, surveys, signups, now, req, nreq>>
    /\ Logged(w)

\* The SurveyResponse table once the transaction's survey row is written: an INSERT
\* if get_or_create created it, else an UPDATE of the session's row.
CommitSurvey(w) ==
    IF txn[w].survey = {}
    THEN surveys
    ELSE IF txn[w].created
         THEN surveys \cup txn[w].survey
         ELSE {IF v.session = loc[w].session_id
               THEN CHOOSE row \in txn[w].survey : TRUE
               ELSE v : v \in surveys}

\* session.is_bounce = False; session.save(); the 201 response; the transaction
\* commits on leaving the with block.
TxnCommit(w) ==
    /\ pc[w] = "txn_save"
    /\ surveys' = CommitSurvey(w)
    /\ signups' = signups \cup txn[w].signup
    /\ sessions' = [sessions EXCEPT ![loc[w].session_id] =
                      SavedRow([loc[w].session EXCEPT !.is_bounce = FALSE])]
    /\ Return(w, Response(201, "success"))
    /\ UNCHANGED <<events, now, req, nreq>>
    /\ Logged(w)

----------------------------------------------------------------------------
\* The clock advances.
Tick ==
    /\ now < MaxDay
    /\ now' = now + 1
    /\ UNCHANGED <<sessions, events, surveys, signups, pc, req, loc, txn, resp, nreq, log, seen>>

Ingest(w) ==
    \/ TrackEvent(w)
    \/ CreateEvent(w)
    \/ SaveSession(w)

Resolve(w) ==
    \/ GetSession(w)
    \/ TouchSession(w)
    \/ CreateSession(w)

Submit(w) ==
    \/ SubmitEarlyAccess(w)
    \/ CheckSessionDuplicate(w)
    \/ CheckEmailDuplicate(w)
    \/ TxnSurvey(w)
    \/ TxnSignup(w)
    \/ TxnCommit(w)

\* Concurrent ingestion, within one day.
NextTrack == (\E w \in Workers : Ingest(w) \/ Resolve(w)) /\ UNCHANGED avars

SpecTrack == Init /\ [][NextTrack]_vars

\* Concurrent submissions, within one day.
NextSubmit == (\E w \in Workers : Submit(w) \/ Resolve(w)) /\ UNCHANGED avars

SpecSubmit == Init /\ [][NextSubmit]_vars

\* Submissions handled one at a time, over several days.
NextSerial == ((\E w \in {"w1"} : Submit(w) \/ Resolve(w)) \/ Tick) /\ UNCHANGED avars

SpecSerial == Init /\ [][NextSerial]_vars

----------------------------------------------------------------------------
(* AnalyticsCalculator: the functions of a funnel and of preference counts *)

\* round(x / y, n) with x / y scaled to a whole number of last digits: the nearest
\* whole number, a tie going to the even one.
Round(x, y) ==
    LET q == x \div y
        r == x % y
    IN IF 2 * r < y THEN q
       ELSE IF 2 * r > y THEN q + 1
       ELSE IF q % 2 = 0 THEN q ELSE q + 1

\* A rate with the overall conversion taken from the signup_success events.
RateStepsBySignups ==
    <<[key |-> "page_to_survey", num |-> "surveys_started", den |-> "page_views"],
      [key |-> "survey_completion", num |-> "surveys_completed", den |-> "surveys_started"],
      [key |-> "survey_to_form", num |-> "forms_started", den |-> "surveys_completed"],
      [key |-> "signup_success", num |-> "successful_signups", den |-> "signup_attempts"],
      [key |-> "overall", num |-> "successful_signups", den |-> "page_views"]>>

\* The rates of get_conversion_rates, in the order it computes them.
RateSteps ==
    <<[key |-> "page_to_survey", num |-> "surveys_started", den |-> "page_views"],
      [key |-> "survey_completion", num |-> "surveys_completed", den |-> "surveys_started"],
      [key |-> "survey_to_form", num |-> "forms_started", den |-> "surveys_completed"],
      [key |-> "signup_success", num |-> "successful_signups", den |-> "signup_attempts"],
      [key |-> "overall", num |-> "conversions", den |-> "page_views"]>>

\* (num / den) * 100 rounded to 2 decimals, in hundredths of a percent; a zero
\* denominator raises ZeroDivisionError.
Percent2(num, den) == IF den = 0 THEN 0 ELSE Round(10000 * num, den)

\* get_conversion_rates without the `> 0` tests.
get_conversion_rates_unguarded(funnel) ==
    LET steps == {RateSteps[i] : i \in DOMAIN RateSteps}
    IN [raised |-> \E st \in steps : funnel[st.den] = 0,
        rates |-> [k \in {st.key : st \in steps} |->
                     LET st == CHOOSE x \in steps : x.key = k
                     IN Percent2(funnel[st.num], funnel[st.den])]]

\* get_conversion_rates on the funnel get_conversion_funnel returned.
get_conversion_rates(funnel) ==
    LET steps == {RateSteps[i] : i \in DOMAIN RateSteps}
        kept == {st \in steps : funnel[st.den] > 0}
    IN [raised |-> \E st \in kept : funnel[st.den] = 0,
        rates |-> [k \in {st.key : st \in kept} |->
                     LET st == CHOOSE x \in kept : x.key = k
                     IN Percent2(funnel[st.num], funnel[st.den])]]

\* benchmarks of identify_drop_off_points, in hundredths of a percent.
benchmarks ==
    [page_to_survey |-> 2500, survey_completion |-> 7000,
     survey_to_form |-> 6000, signup_success |-> 9000]

\* The recommendation appended for the issue of a step.
recommendation ==
    [page_to_survey |-> "Consider making the survey more prominent or compelling",
     survey_completion |-> "Simplify survey options or reduce cognitive load",
     survey_to_form |-> "Improve value proposition for early access signup",
     signup_success |-> "Fix form validation or technical issues"]

\* The issues of identify_drop_off_points with `<=` for `<`.
RECURSIVE issues_inclusive(_, _)
issues_inclusive(rates, i) ==
    IF i > Len(RateSteps) THEN <<>>
    ELSE LET step == RateSteps[i].key
         IN (IF step \in DOMAIN rates /\ step \in DOMAIN benchmarks
                /\ rates[step] <= benchmarks[step]
             THEN <<[step |-> step, actual_rate |-> rates[step],
                     benchmark |-> benchmarks[step],
                     gap |-> benchmarks[step] - rates[step]]>>
             ELSE <<>>) \o issues_inclusive(rates, i + 1)

\* The loop of identify_drop_off_points over rates.items(), from the i-th rate on:
\* the rates are in the order get_conversion_rates set them.
RECURSIVE issues(_, _)
issues(rates, i) ==
    IF i > Len(RateSteps) THEN <<>>
    ELSE LET step == RateSteps[i].key
         IN (IF step \in DOMAIN rates /\ step \in DOMAIN benchmarks
                /\ rates[step] < benchmarks[step]
             THEN <<[step |-> step, actual_rate |-> rates[step],
                     benchmark |-> benchmarks[step],
                     gap |-> benchmarks[step] - rates[step]]>>
             ELSE <<>>) \o issues(rates, i + 1)

\* FunnelAnalyzer.identify_drop_off_points on the funnel of the range.
identify_drop_off_points(funnel) ==
    LET rates == get_conversion_rates(funnel).rates
        found == issues(rates, 1)
    IN [issues |-> found,
        recommendations |-> [i \in DOMAIN found |-> recommendation[found[i].step]],
        overall_health |-> IF Len(found) <= 1 THEN "good" ELSE "needs_attention"]

\* Every response weighing the same.
engagement_weights_flat ==
    [nothing |-> 1, notification |-> 1, updates |-> 1,
     yes_would_use |-> 1, not_sure |-> 1, no_wouldnt_use |-> 1]

engagement_weights ==
    [nothing |-> 0, notification |-> 1, updates |-> 2,
     yes_would_use |-> 2, not_sure |-> 1, no_wouldnt_use |-> 0]

RECURSIVE SumOver(_, _)
\* sum(f[k] for k in S)
SumOver(f, S) ==
    IF S = {} THEN 0
    ELSE LET k == CHOOSE x \in S : TRUE IN f[k] + SumOver(f, S \ {k})

\* _calculate_engagement_score, in hundredths.
calculate_engagement_score(preference_counts) ==
    LET total_responses == SumOver(preference_counts, DOMAIN preference_counts)
        weighed == DOMAIN engagement_weights \cap DOMAIN preference_counts
        weighted_sum == SumOver([k \in weighed |-> preference_counts[k] * engagement_weights[k]],
                                weighed)
    IN IF total_responses = 0 THEN 0 ELSE Round(100 * weighted_sum, total_responses)

\* surveys.values("preference").annotate(count=Count("pk")): the values that occur.
PreferenceCounts(counts) ==
    [k \in {x \in DOMAIN counts : counts[x] > 0} |-> counts[k]]

\* get_user_preferences_breakdown: percentages in tenths, score in hundredths.
get_user_preferences_breakdown(counts) ==
    LET preference_counts == PreferenceCounts(counts)
        total_responses == SumOver(preference_counts, DOMAIN preference_counts)
    IN [total_responses |-> total_responses,
        counts |-> preference_counts,
        percentages |-> IF total_responses > 0
                        THEN [k \in DOMAIN preference_counts |->
                                Round(1000 * preference_counts[k], total_responses)]
                        ELSE <<>>,
        engagement_score |-> calculate_engagement_score(preference_counts)]

\* UserSession.objects.filter(first_seen__date__range=[start, end]) on a table of
\* sessions: the rows it keeps.
InRange(table, start, end) ==
    {i \in DOMAIN table : start <= table[i].first_seen /\ table[i].first_seen <= end}

\* values("utm_source").annotate(...): the group of a source, with
\* total_sessions = Count("id") and conversions = Count("signup", signup not null).
SourceGroup(table, rows, source) ==
    [utm_source |-> source,
     total_sessions |-> Cardinality({i \in rows : table[i].utm_source = source}),
     conversions |-> Cardinality({i \in rows : table[i].utm_source = source
                                               /\ table[i].signup})]

\* order_by("-total_sessions"): the orders the database may return the groups in;
\* groups of as many sessions come in either order.
SourceOrders(table, rows) ==
    LET sources == {table[i].utm_source : i \in rows}
        n == Cardinality(sources)
    IN {ord \in [1..n -> sources] :
          /\ \A i, k \in 1..n : i # k => ord[i] # ord[k]
          /\ \A i, k \in 1..n :
                i < k => SourceGroup(table, rows, ord[i]).total_sessions
                           >= SourceGroup(table, rows, ord[k]).total_sessions}

\* The entry of attribution_data for a group; avg_time_minutes and bounce_rate,
\* which are computed from the group alone, are not kept.
AttributionEntry(item) ==
    [source |-> IF item.utm_source = "" THEN "Direct" ELSE item.utm_source,
     sessions |-> item.total_sessions,
     conversions |-> item.conversions,
     conversion_rate |-> IF item.total_sessions > 0
                         THEN Round(10000 * item.conversions, item.total_sessions)
                         ELSE 0]

\* min for max in top_converting_source.
top_converting_source_least(attribution_data) ==
    IF attribution_data = <<>> THEN {}
    ELSE LET first == CHOOSE i \in DOMAIN attribution_data :
                        \A k \in DOMAIN attribution_data :
                           \/ attribution_data[k].conversion_rate
                                 > attribution_data[i].conversion_rate
                           \/ /\ attribution_data[k].conversion_rate
                                    = attribution_data[i].conversion_rate
                              /\ i <= k
         IN {attribution_data[first]}

\* max(attribution_data, key=conversion_rate) if attribution_data else None: the
\* first of the entries of the greatest rate.
top_converting_source(attribution_data) ==
    IF attribution_data = <<>> THEN {}
    ELSE LET first == CHOOSE i \in DOMAIN attribution_data :
                        \A k \in DOMAIN attribution_data :
                           \/ attribution_data[k].conversion_rate
                                 < attribution_data[i].conversion_rate
                           \/ /\ attribution_data[k].conversion_rate
                                    = attribution_data[i].conversion_rate
                              /\ i <= k
         IN {attribution_data[first]}

\* get_traffic_attribution on a table of sessions, the groups coming in order ord.
get_traffic_attribution(table, start, end, ord) ==
    LET rows == InRange(table, start, end)
        attribution_data ==
            [i \in DOMAIN ord |-> AttributionEntry(SourceGroup(table, rows, ord[i]))]
    IN [sources |-> attribution_data,
        total_sources |-> Len(attribution_data),
        top_converting_source |-> top_converting_source(attribution_data)]

\* The number of sessions of a table.
MaxRows == 3

\* Values of utm_source: none, a source, and the word reported for none.
SourceInputs == {"", "google", "Direct"}

\* Tables of sessions: the source, the date first seen, whether a signup is linked.
TableInputs ==
    [1..MaxRows -> [utm_source : SourceInputs, first_seen : 0..1, signup : BOOLEAN]]

\* Counts of a funnel step.
StepCounts == {0, 1, 3, 6, 10}

FunnelInputs ==
    [total_sessions : {10}, page_views : StepCounts, surveys_started : StepCounts,
     surveys_completed : StepCounts, forms_started : StepCounts,
     signup_attempts : StepCounts, successful_signups : StepCounts,
     conversions : StepCounts]

\* Numbers of responses of each preference value.
CountInputs == [DOMAIN engagement_weights -> {0, 1, 2}]

\* A dashboard request for the rates of a funnel, or for the breakdown of the
\* responses.
InitReports ==
    /\ sessions = <<>>
    /\ events = EmptyBag
    /\ surveys = {}
    /\ signups = {}
    /\ now = 0
    /\ pc = [w \in Workers |-> "idle"]
    /\ req = [w \in Workers |-> NoReq]
    /\ loc = [w \in Workers |-> NoLoc]
    /\ txn = [w \in Workers |-> NoTxn]
    /\ resp = [w \in Workers |-> NoResp]
    /\ nreq = 0
    /\ log = [w \in Workers |-> {}]
    /\ seen = [w \in Workers |-> {}]
    /\ daily = {}
    /\ cache = <<>>
    /\ job = NoJob
    /\ \/ \E f \in FunnelInputs : view = [op |-> "rates", funnel |-> f, done |-> FALSE]
       \/ \E f \in FunnelInputs : view = [op |-> "drop_off", funnel |-> f, done |-> FALSE]
       \/ \E t \in TableInputs, start \in 0..1, end \in 0..1 :
             /\ start <= end
             /\ view = [op |-> "attribution", table |-> t, start |-> start, end |-> end,
                        done |-> FALSE]
       \/ \E c \in CountInputs : view = [op |-> "preferences", counts |-> c, done |-> FALSE]
    /\ run = NoRuns

GetConversionRates ==
    /\ view.op = "rates" /\ ~view.done
    /\ view' = [op |-> "rates", funnel |-> view.funnel, done |-> TRUE,
                result |-> get_conversion_rates(view.funnel)]
    /\ UNCHANGED <<daily, cache, job>>
    /\ UNCHANGED rvars
    /\ UNCHANGED run

GetPreferenceBreakdown ==
    /\ view.op = "preferences" /\ ~view.done
    /\ view' = [op |-> "preferences", counts |-> view.counts, done |-> TRUE,
                result |-> get_user_preferences_breakdown(view.counts)]
    /\ UNCHANGED <<daily, cache, job>>
    /\ UNCHANGED rvars
    /\ UNCHANGED run

IdentifyDropOffPoints ==
    /\ view.op = "drop_off" /\ ~view.done
    /\ view' = [op |-> "drop_off", funnel |-> view.funnel, done |-> TRUE,
                rates |-> get_conversion_rates(view.funnel).rates,
                result |-> identify_drop_off_points(view.funnel)]
    /\ UNCHANGED <<daily, cache, job>>
    /\ UNCHANGED rvars
    /\ UNCHANGED run

GetTrafficAttribution ==
    /\ view.op = "attribution" /\ ~view.done
    /\ \E ord \in SourceOrders(view.table, InRange(view.table, view.start, view.end)) :
          view' = [op |-> "attribution", table |-> view.table, start |-> view.start,
                   end |-> view.end, done |-> TRUE,
                   result |-> get_traffic_attribution(view.table, view.start,
                                                      view.end, ord)]
    /\ UNCHANGED <<daily, cache, job>>
    /\ UNCHANGED rvars
    /\ UNCHANGED run

NextReports ==
    \/ GetConversionRates
    \/ GetPreferenceBreakdown
    \/ IdentifyDropOffPoints
    \/ GetTrafficAttribution

SpecReports == InitReports /\ [][NextReports]_vars

----------------------------------------------------------------------------
(* compute_daily_stats: the aggregation job *)

\* The number of FunnelEvent rows of type t with timestamp on date d.
EventsOn(d, t) ==
    BagCardinality([e \in {f \in BagToSet(events) : f.timestamp = d /\ f.event_type = t}
                      |-> CopiesIn(e, events)])

\* UserSession.objects.filter(first_seen__date=target_date)
SessionsOn(d) == {x \in DOMAIN sessions : sessions[x].first_seen = d}

\* calculate_daily_metrics with unique_visitors taken from the page views.
calculate_daily_metrics_by_views(target_date) ==
    LET day_sessions == SessionsOn(target_date)
        day_surveys == {v \in surveys : v.created_at = target_date}
        day_signups == {g \in signups : g.created_at = target_date}
        total_time == SumOver([x \in day_sessions |-> sessions[x].time_on_site], day_sessions)
    IN [ad_impressions |-> EventsOn(target_date, "ad_impression"),
        ad_clicks |-> EventsOn(target_date, "ad_click"),
        page_views |-> EventsOn(target_date, "page_view"),
        unique_visitors |-> EventsOn(target_date, "page_view"),
        surveys_started |-> EventsOn(target_date, "survey_start"),
        surveys_completed |-> EventsOn(target_date, "survey_complete"),
        signups |-> Cardinality(day_signups),
        prefer_nothing |-> Cardinality({v \in day_surveys : v.preference = "nothing"}),
        prefer_notification |->
            Cardinality({v \in day_surveys : v.preference = "notification"}),
        prefer_updates |-> Cardinality({v \in day_surveys : v.preference = "updates"}),
        avg_time_on_site |-> IF day_sessions = {} THEN 0
                             ELSE Round(10 * total_time, 60 * Cardinality(day_sessions))]

\* calculate_daily_metrics: the counts of one date; avg_time_on_site in tenths of a
\* minute. verified_signups is left out: is_verified is False on every signup the
\* endpoints create.
calculate_daily_metrics(target_date) ==
    LET day_sessions == SessionsOn(target_date)
        day_surveys == {v \in surveys : v.created_at = target_date}
        day_signups == {g \in signups : g.created_at = target_date}
        total_time == SumOver([x \in day_sessions |-> sessions[x].time_on_site], day_sessions)
    IN [ad_impressions |-> EventsOn(target_date, "ad_impression"),
        ad_clicks |-> EventsOn(target_date, "ad_click"),
        page_views |-> EventsOn(target_date, "page_view"),
        unique_visitors |-> Cardinality(day_sessions),
        surveys_started |-> EventsOn(target_date, "survey_start"),
        surveys_completed |-> EventsOn(target_date, "survey_complete"),
        signups |-> Cardinality(day_signups),
        prefer_nothing |-> Cardinality({v \in day_surveys : v.preference = "nothing"}),
        prefer_notification |->
            Cardinality({v \in day_surveys : v.preference = "notification"}),
        prefer_updates |-> Cardinality({v \in day_surveys : v.preference = "updates"}),
        avg_time_on_site |-> IF day_sessions = {} THEN 0
                             ELSE Round(10 * total_time, 60 * Cardinality(day_sessions))]

\* The fields of DailyStats that calculate_daily_metrics does not give: the rates,
\* null ({}) until calculated.
NullRates ==
    [click_through_rate |-> {}, page_conversion_rate |-> {},
     overall_conversion_rate |-> {}, survey_completion_rate |-> {}, bounce_rate |-> {}]

\* A DailyStats row of the date with the given counts and rates.
DailyRow(d, stats, rates, t) ==
    [date |-> d, updated_at |-> t,
     ad_impressions |-> stats.ad_impressions, ad_clicks |-> stats.ad_clicks,
     page_views |-> stats.page_views, unique_visitors |-> stats.unique_visitors,
     surveys_started |-> stats.surveys_started,
     surveys_completed |-> stats.surveys_completed, signups |-> stats.signups,
     prefer_nothing |-> stats.prefer_nothing,
     prefer_notification |-> stats.prefer_notification,
     prefer_updates |-> stats.prefer_updates, avg_time_on_site |-> stats.avg_time_on_site,
     click_through_rate |-> rates.click_through_rate,
     page_conversion_rate |-> rates.page_conversion_rate,
     overall_conversion_rate |-> rates.overall_conversion_rate,
     survey_completion_rate |-> rates.survey_completion_rate,
     bounce_rate |-> rates.bounce_rate]

\* update_or_create that always creates a row.
create_always(rows, d, stats) == rows \cup {DailyRow(d, stats, NullRates, now)}

\* DailyStats.objects.update_or_create(date=target_date, defaults=stats)
update_or_create(rows, d, stats) ==
    IF \E row \in rows : row.date = d
    THEN {IF row.date = d THEN DailyRow(d, stats, row, now) ELSE row : row \in rows}
    ELSE rows \cup {DailyRow(d, stats, NullRates, now)}

\* calculate_rates that leaves a rate the row already has.
calculate_rates_once(row) ==
    LET bounce_sessions == Cardinality({x \in SessionsOn(row.date) : sessions[x].is_bounce})
    IN [row EXCEPT
          !.click_through_rate =
              IF row.ad_impressions > 0 /\ @ = {}
              THEN {Round(10000 * row.ad_clicks, row.ad_impressions)} ELSE @,
          !.overall_conversion_rate =
              IF row.ad_impressions > 0 /\ row.signups > 0 /\ @ = {}
              THEN {Round(10000 * row.signups, row.ad_impressions)} ELSE @,
          !.page_conversion_rate =
              IF row.page_views > 0 /\ row.signups > 0 /\ @ = {}
              THEN {Round(10000 * row.signups, row.page_views)} ELSE @,
          !.survey_completion_rate =
              IF row.surveys_started > 0 /\ row.surveys_completed > 0 /\ @ = {}
              THEN {Round(10000 * row.surveys_completed, row.surveys_started)} ELSE @,
          !.bounce_rate =
              IF row.unique_visitors > 0 /\ @ = {}
              THEN {Round(10000 * bounce_sessions, row.unique_visitors)} ELSE @]

\* DailyStats.calculate_rates, rates in hundredths of a percent: a rate whose
\* condition fails keeps the value the row had.
calculate_rates(row) ==
    LET bounce_sessions == Cardinality({x \in SessionsOn(row.date) : sessions[x].is_bounce})
    IN [row EXCEPT
          !.click_through_rate =
              IF row.ad_impressions > 0
              THEN {Round(10000 * row.ad_clicks, row.ad_impressions)} ELSE @,
          !.overall_conversion_rate =
              IF row.ad_impressions > 0 /\ row.signups > 0
              THEN {Round(10000 * row.signups, row.ad_impressions)} ELSE @,
          !.page_conversion_rate =
              IF row.page_views > 0 /\ row.signups > 0
              THEN {Round(10000 * row.signups, row.page_views)} ELSE @,
          !.survey_completion_rate =
              IF row.surveys_started > 0 /\ row.surveys_completed > 0
              THEN {Round(10000 * row.surveys_completed, row.surveys_started)} ELSE @,
          !.bounce_rate =
              IF row.unique_visitors > 0
              THEN {Round(10000 * bounce_sessions, row.unique_visitors)} ELSE @]

\* compute_stats_for_date that recomputes whether or not the row exists.
compute_always(target_date, force, fault) ==
    IF fault
    THEN [rows |-> daily, returned |-> FALSE]
    ELSE [rows |-> {IF row.date = target_date THEN calculate_rates(row) ELSE row :
                      row \in update_or_create(daily, target_date,
                                               calculate_daily_metrics(target_date))},
          returned |-> TRUE]

\* compute_stats_for_date: the DailyStats table it leaves and what it returns. An
\* exception inside the atomic block (fault) rolls the block back.
compute_stats_for_date(target_date, force, fault) ==
    IF ~force /\ \E row \in daily : row.date = target_date
    THEN [rows |-> daily, returned |-> FALSE]
    ELSE IF fault
         THEN [rows |-> daily, returned |-> FALSE]
         ELSE [rows |-> {IF row.date = target_date THEN calculate_rates(row) ELSE row :
                           row \in update_or_create(daily, target_date,
                                                    calculate_daily_metrics(target_date))},
               returned |-> TRUE]

\* manage.py compute_daily_stats --date d [--force]; the dashboard call of before
\* has returned.
ComputeDate ==
    /\ job.pc \in {"idle", "done"}
    /\ \E d \in 0..now, force \in BOOLEAN, fault \in BOOLEAN :
          LET out == compute_stats_for_date(d, force, fault)
          IN /\ daily' = out.rows
             /\ job' = [NoJob EXCEPT
                          !.pc = "done", !.op = "date", !.date = d, !.force = force,
                          !.returned = out.returned,
                          !.fresh = force /\ out.returned,
                          !.again = job.fresh /\ job.date = d /\ force /\ out.returned]
    /\ view' = NoView
    /\ UNCHANGED cache
    /\ UNCHANGED rvars
    /\ UNCHANGED run

----------------------------------------------------------------------------
(* compute_stats_for_date, one statement at a time *)

\* Every variable but daily and run.
nonrun == <<sessions, events, surveys, signups, now, pc, req, loc, txn, resp, nreq, log,
            seen, cache, job, view>>

\* The rows of a date in the table.
RowsOf(d) == {row \in daily : row.date = d}

\* The command starts for a date: it returns False when the row exists and force is
\* not set; otherwise it enters transaction.atomic().
RunStart(j) ==
    /\ run[j].pc = "idle"
    /\ \E d \in 0..now, force \in BOOLEAN :
          run' = [run EXCEPT ![j] =
                    [NoRun EXCEPT
                       !.pc = IF ~force /\ RowsOf(d) # {} THEN "done" ELSE "metrics",
                       !.date = d, !.force = force,
                       !.before = RowsOf(d)]]
    /\ UNCHANGED daily
    /\ UNCHANGED nonrun

\* stats = self.calculate_daily_metrics(target_date)
RunMetrics(j) ==
    /\ run[j].pc = "metrics"
    /\ run' = [run EXCEPT ![j].pc = "upsert",
                          ![j].stats = {calculate_daily_metrics(run[j].date)}]
    /\ UNCHANGED daily
    /\ UNCHANGED nonrun

\* The row of the date as update_or_create leaves it.
Upserted(j) ==
    {row \in UNION {update_or_create(daily, run[j].date, stats) : stats \in run[j].stats} :
       row.date = run[j].date}

\* update_or_create whose write reaches the table at once.
RunUpsertAutocommit(j) ==
    /\ run[j].pc = "upsert"
    /\ \A k \in Runners \ {j} : run[k].pending = {} \/ run[k].date # run[j].date
    /\ run' = [run EXCEPT ![j].pc = "rates", ![j].target = RowsOf(run[j].date),
                          ![j].pending = Upserted(j)]
    /\ daily' = (daily \ RowsOf(run[j].date)) \cup Upserted(j)
    /\ UNCHANGED nonrun

\* update_or_create that does not wait for the row of another transaction.
RunUpsertUnlocked(j) ==
    /\ run[j].pc = "upsert"
    /\ run' = [run EXCEPT ![j].pc = "rates", ![j].target = RowsOf(run[j].date),
                          ![j].pending = Upserted(j)]
    /\ UNCHANGED daily
    /\ UNCHANGED nonrun

\* DailyStats.objects.update_or_create(date=target_date, defaults=stats): the row is
\* created or updated inside the transaction; the statement waits while another
\* transaction holds an uncommitted row of the date (row lock, unique index).
RunUpsert(j) ==
    /\ run[j].pc = "upsert"
    /\ \A k \in Runners \ {j} : run[k].pending = {} \/ run[k].date # run[j].date
    /\ run' = [run EXCEPT ![j].pc = "rates", ![j].target = RowsOf(run[j].date),
                          ![j].pending = Upserted(j)]
    /\ UNCHANGED daily
    /\ UNCHANGED nonrun

\* daily_stats.calculate_rates(), saving the rates of the row.
RunRates(j) ==
    /\ run[j].pc = "rates"
    /\ run' = [run EXCEPT ![j].pc = "commit",
                          ![j].pending = {calculate_rates(row) : row \in run[j].pending}]
    /\ UNCHANGED daily
    /\ UNCHANGED nonrun

\* The atomic block ends: the row reaches the table, replacing the row it updated,
\* and the command returns True.
RunCommit(j) ==
    /\ run[j].pc = "commit"
    /\ daily' = (daily \ run[j].target) \cup run[j].pending
    /\ run' = [run EXCEPT ![j].pc = "done", ![j].returned = TRUE,
                          ![j].written = run[j].pending, ![j].pending = {},
                          ![j].commit_order =
                              1 + Cardinality({k \in Runners : run[k].commit_order > 0})]
    /\ UNCHANGED nonrun

\* An exception or a crash at any statement of the atomic block: the transaction is
\* rolled back and the command returns False (or is gone).
RunFault(j) ==
    /\ run[j].pc \in {"metrics", "upsert", "rates", "commit"}
    /\ run' = [run EXCEPT ![j].pc = "done", ![j].returned = FALSE, ![j].raised = TRUE,
                          ![j].pending = {}]
    /\ UNCHANGED daily
    /\ UNCHANGED nonrun

\* A step of one process of the command.
Run(j) ==
    RunStart(j) \/ RunMetrics(j) \/ RunUpsert(j) \/ RunRates(j) \/ RunCommit(j)
    \/ RunFault(j)

----------------------------------------------------------------------------
(* AnalyticsCalculator: the reads of the tables *)

\* The number of FunnelEvent rows of type t with timestamp in start..end.
EventsIn(start, end, t) ==
    BagCardinality([e \in {f \in BagToSet(events) :
                            f.timestamp \in start..end /\ f.event_type = t}
                      |-> CopiesIn(e, events)])

\* The funnel with conversions counted by the date of the signup.
ComputedFunnelBySignupDate(start, end) ==
    [total_sessions |->
         Cardinality({x \in DOMAIN sessions : sessions[x].first_seen \in start..end}),
     page_views |-> EventsIn(start, end, "page_view"),
     surveys_started |-> EventsIn(start, end, "survey_start"),
     surveys_completed |-> EventsIn(start, end, "survey_complete"),
     forms_started |-> EventsIn(start, end, "form_start"),
     signup_attempts |-> EventsIn(start, end, "signup_attempt"),
     successful_signups |-> EventsIn(start, end, "signup_success"),
     conversions |-> Cardinality({g \in signups : g.created_at \in start..end})]

\* The funnel get_conversion_funnel computes from the tables.
ComputedFunnel(start, end) ==
    LET in_range == {x \in DOMAIN sessions : sessions[x].first_seen \in start..end}
    IN [total_sessions |-> Cardinality(in_range),
        page_views |-> EventsIn(start, end, "page_view"),
        surveys_started |-> EventsIn(start, end, "survey_start"),
        surveys_completed |-> EventsIn(start, end, "survey_complete"),
        forms_started |-> EventsIn(start, end, "form_start"),
        signup_attempts |-> EventsIn(start, end, "signup_attempt"),
        successful_signups |-> EventsIn(start, end, "signup_success"),
        conversions |-> Cardinality({x \in in_range : \E g \in signups : g.session = x})]

\* cache_key = f"funnel_{self.start_date}_{self.end_date}"
CacheKey(start, end) == <<"funnel", start, end>>

\* get_conversion_funnel that never looks in the cache.
get_conversion_funnel_uncached(start, end) == ComputedFunnel(start, end)

\* get_conversion_funnel: the cached result if there is one.
get_conversion_funnel(start, end) ==
    IF CacheKey(start, end) \in DOMAIN cache
    THEN cache[CacheKey(start, end)].value
    ELSE ComputedFunnel(start, end)

\* The bucket of a date in _get_daily_trends: from the DailyStats row of the date if
\* there is one, from the tables otherwise; the date stands for its isoformat().
DailyBucket(d) ==
    IF \E row \in daily : row.date = d
    THEN LET daily_stat == CHOOSE row \in daily : row.date = d
         IN [date |-> d,
             sessions |-> daily_stat.unique_visitors,
             signups |-> daily_stat.signups,
             conversion_rate |-> IF daily_stat.page_conversion_rate = {} THEN 0
                                 ELSE CHOOSE v \in daily_stat.page_conversion_rate : TRUE]
    ELSE LET day_sessions == Cardinality(SessionsOn(d))
             day_signups == Cardinality({g \in signups : g.created_at = d})
         IN [date |-> d,
             sessions |-> day_sessions,
             signups |-> day_signups,
             conversion_rate |-> IF day_sessions > 0
                                 THEN Round(10000 * day_signups, day_sessions)
                                 ELSE 0]

\* The loop of _get_daily_trends with `<` for `<=`.
RECURSIVE get_daily_trends_exclusive(_, _)
get_daily_trends_exclusive(start, end) ==
    IF start < end
    THEN <<DailyBucket(start)>> \o get_daily_trends_exclusive(start + 1, end)
    ELSE <<>>

\* _get_daily_trends: while current_date <= self.end_date, a bucket is appended.
RECURSIVE get_daily_trends(_, _)
get_daily_trends(start, end) ==
    IF start <= end
    THEN <<DailyBucket(start)>> \o get_daily_trends(start + 1, end)
    ELSE <<>>

\* get_time_based_trends: whether it raises ValueError and the list it returns. The
\* hours of _get_hourly_trends are below the clock of the model: of the hourly
\* list only that it is returned is kept.
get_time_based_trends(granularity, start, end) ==
    IF granularity = "daily"
    THEN [raised |-> FALSE, trends |-> get_daily_trends(start, end)]
    ELSE IF granularity = "hourly"
         THEN [raised |-> FALSE, trends |-> <<>>]
         ELSE [raised |-> TRUE, trends |-> <<>>]

\* Values of granularity.
GranularityInputs == {"daily", "hourly", "weekly", ""}

\* AnalyticsCalculator(start, end).get_time_based_trends(granularity), for any range
\* up to today.
GetTrends ==
    /\ \E start \in 0..now, end \in 0..now, granularity \in GranularityInputs :
          /\ start <= end
          /\ view' = [op |-> "trends", start |-> start, end |-> end,
                      granularity |-> granularity,
                      result |-> get_time_based_trends(granularity, start, end)]
    /\ job' = NoJob
    /\ UNCHANGED <<daily, cache, run>>
    /\ UNCHANGED rvars

\* A dashboard call, AnalyticsCalculator(start, end) with get_conversion_funnel and
\* get_time_based_trends("daily"), as generate_weekly_report makes them, for a range
\* from the first day of the site to any day since; the funnel is cached
\* (cache.set(cache_key, funnel, 300)) when computed.
Report ==
    /\ \E start \in {0}, end \in 0..now :
          /\ start <= end
          /\ view' = [op |-> "report", start |-> start, end |-> end,
                      cached |-> CacheKey(start, end) \in DOMAIN cache,
                      funnel |-> get_conversion_funnel(start, end),
                      trends |-> get_daily_trends(start, end)]
          /\ cache' = IF CacheKey(start, end) \in DOMAIN cache
                      THEN cache
                      ELSE [k \in DOMAIN cache \cup {CacheKey(start, end)} |->
                              IF k = CacheKey(start, end)
                              THEN [value |-> ComputedFunnel(start, end), at |-> now]
                              ELSE cache[k]]
    /\ job' = NoJob
    /\ UNCHANGED daily
    /\ UNCHANGED rvars
    /\ UNCHANGED run

\* FunnelAnalyzer.identify_drop_off_points(start_date, end_date) up to its call of
\* get_conversion_funnel, for any range up to today.
GetFunnel ==
    /\ \E start \in 0..now, end \in 0..now :
          /\ start <= end
          /\ view' = [op |-> "funnel", start |-> start, end |-> end,
                      cached |-> CacheKey(start, end) \in DOMAIN cache,
                      funnel |-> get_conversion_funnel(start, end)]
          /\ cache' = IF CacheKey(start, end) \in DOMAIN cache
                      THEN cache
                      ELSE [k \in DOMAIN cache \cup {CacheKey(start, end)} |->
                              IF k = CacheKey(start, end)
                              THEN [value |-> ComputedFunnel(start, end), at |-> now]
                              ELSE cache[k]]
    /\ job' = NoJob
    /\ UNCHANGED daily
    /\ UNCHANGED rvars
    /\ UNCHANGED run

\* The 300 seconds of a cache entry have passed.
Expire ==
    /\ \E k \in DOMAIN cache : cache' = [j \in DOMAIN cache \ {k} |-> cache[j]]
    /\ job' = NoJob /\ view' = NoView
    /\ UNCHANGED daily
    /\ UNCHANGED rvars
    /\ UNCHANGED run

\* The clock passes midnight; a cache entry set before today has expired.
Midnight ==
    /\ Tick
    /\ cache' = [k \in {j \in DOMAIN cache : cache[j].at = now} |-> cache[k]]
    /\ view' = NoView
    /\ UNCHANGED <<daily, job>>
    /\ UNCHANGED run

\* The tables after a first visitor has seen and clicked the ad, viewed the page,
\* answered the survey and signed up.
InitVisited ==
    /\ sessions = [x \in {"u2"} |->
                     [NewSession(0) EXCEPT !.page_views = 1, !.is_bounce = FALSE]]
    /\ events = SetToBag({[session |-> "u2", event_type |-> t, timestamp |-> 0] :
                            t \in {"ad_impression", "ad_click", "page_view",
                                   "survey_start", "survey_complete"}})
    /\ surveys = {[session |-> "u2", preference |-> "updates", time_to_select |-> {3},
                   changed_mind_count |-> 1, created_at |-> 0, by |-> 0]}
    /\ signups = {[session |-> "u2", email |-> <<"a">>, name |-> <<"n">>,
                   created_at |-> 0, by |-> 0]}
    /\ now = 0
    /\ pc = [w \in Workers |-> "idle"]
    /\ req = [w \in Workers |-> NoReq]
    /\ loc = [w \in Workers |-> NoLoc]
    /\ txn = [w \in Workers |-> NoTxn]
    /\ resp = [w \in Workers |-> NoResp]
    /\ nreq = 1
    /\ log = [w \in Workers |-> {}]
    /\ seen = [w \in Workers |-> {}]
    /\ daily = {}
    /\ cache = <<>>
    /\ job = NoJob
    /\ view = NoView
    /\ run = NoRuns

\* A request of the site; it finds the command and the dashboard call of before
\* finished.
Request(w) ==
    /\ Ingest(w) \/ Submit(w) \/ Resolve(w)
    /\ job' = NoJob /\ view' = NoView
    /\ UNCHANGED <<daily, cache>>
    /\ UNCHANGED run

\* Requests handled one at a time; between them the job runs for a date, over
\* several days.
NextAggregation ==
    \/ \E w \in {"w1"} : Request(w)
    \/ Midnight
    \/ (\A w \in Workers : pc[w] = "idle") /\ ComputeDate

SpecAggregation == InitVisited /\ [][NextAggregation]_vars

----------------------------------------------------------------------------
(* compute_daily_stats --backfill and --days over a history of sessions *)

\* The sessions first seen on day d of a history that begins on day first: one on
\* the first day, then none, one or two a day.
HistoryIds(d, first) ==
    IF d < first THEN {}
    ELSE IF d = first \/ d % 3 = 1 THEN {"h" \o ToString(d) \o "a"}
    ELSE IF d % 3 = 2 THEN {"h" \o ToString(d) \o "a", "h" \o ToString(d) \o "b"}
    ELSE {}

\* The UserSession table of a history of the days first..last, every visitor having
\* left after one look.
History(first, last) ==
    LET ids == UNION {HistoryIds(d, first) : d \in 0..last}
    IN [x \in ids |-> NewSession(CHOOSE d \in 0..last : x \in HistoryIds(d, first))]

\* The site on the morning of day HistoryDays: sessions since some first day, today
\* included, or none at all; no DailyStats row yet.
InitBackfill ==
    /\ \E first \in 0..(HistoryDays + 1) : sessions = History(first, HistoryDays)
    /\ events = EmptyBag
    /\ surveys = {}
    /\ signups = {}
    /\ now = HistoryDays
    /\ pc = [w \in Workers |-> "idle"]
    /\ req = [w \in Workers |-> NoReq]
    /\ loc = [w \in Workers |-> NoLoc]
    /\ txn = [w \in Workers |-> NoTxn]
    /\ resp = [w \in Workers |-> NoResp]
    /\ nreq = 0
    /\ log = [w \in Workers |-> {}]
    /\ seen = [w \in Workers |-> {}]
    /\ daily = {}
    /\ cache = <<>>
    /\ job = NoJob
    /\ view = NoView
    /\ run = NoRuns

\* Values of --days: the default and a longer run.
DaysInputs == {1, 3}

\* handle without --backfill and --date: the last `days` days up to yesterday, one
\* compute_stats_for_date after the other; run by the scheduler before any backfill.
ComputeDays ==
    /\ job.pc = "idle"
    /\ \E days \in DaysInputs, force \in BOOLEAN :
          LET end_date == now - 1
              start_date == end_date - (days - 1)
          IN /\ job' = [NoJob EXCEPT !.pc = "days", !.op = "days", !.force = force,
                                      !.date = start_date, !.end_date = end_date]
    /\ UNCHANGED <<daily, cache, view>>
    /\ UNCHANGED rvars
    /\ UNCHANGED run

\* for i in range(days): self.compute_stats_for_date(target_date, options["force"])
ComputeDaysStep ==
    /\ job.pc = "days"
    /\ IF job.date <= job.end_date
       THEN \E fault \in BOOLEAN :
               LET out == compute_stats_for_date(job.date, job.force, fault)
               IN /\ daily' = out.rows
                  /\ job' = [job EXCEPT !.date = @ + 1]
       ELSE /\ job' = NoJob
            /\ UNCHANGED daily
    /\ UNCHANGED <<cache, view>>
    /\ UNCHANGED rvars
    /\ UNCHANGED run

\* backfill_all_stats up to the loop: the earliest session gives start_date;
\* without a session the command returns.
BackfillStart ==
    /\ job.pc = "idle"
    /\ \E force \in BOOLEAN :
          IF DOMAIN sessions = {}
          THEN job' = [NoJob EXCEPT !.pc = "done", !.op = "backfill", !.force = force]
          ELSE LET first_session ==
                       CHOOSE x \in DOMAIN sessions :
                           \A y \in DOMAIN sessions :
                               sessions[x].first_seen <= sessions[y].first_seen
               IN job' = [NoJob EXCEPT
                            !.pc = "backfill", !.op = "backfill", !.force = force,
                            !.date = sessions[first_session].first_seen,
                            !.end_date = now - 1,
                            !.existing = {row.date : row \in daily}]
    /\ UNCHANGED <<daily, cache, view>>
    /\ UNCHANGED rvars
    /\ UNCHANGED run

\* Backfill loop that ends at the first date whose computation faults.
BackfillStepStopping ==
    /\ job.pc = "backfill"
    /\ IF job.date <= job.end_date
       THEN \E fault \in BOOLEAN :
               LET out == compute_stats_for_date(job.date, job.force, fault)
                   raised == fault /\ (job.force \/ ~\E row \in daily : row.date = job.date)
               IN /\ daily' = out.rows
                  /\ job' = [job EXCEPT
                               !.pc = IF raised THEN "done" ELSE @,
                               !.computed_count = IF out.returned THEN @ + 1 ELSE @,
                               !.skipped_count = IF out.returned THEN @ ELSE @ + 1,
                               !.visited = Append(@, job.date),
                               !.faulted = IF raised THEN @ \cup {job.date} ELSE @,
                               !.date = @ + 1]
       ELSE /\ job' = [job EXCEPT !.pc = "done"]
            /\ UNCHANGED daily
    /\ UNCHANGED <<cache, view>>
    /\ UNCHANGED rvars
    /\ UNCHANGED run

\* One turn of the loop of backfill_all_stats, or its end: a date is computed or
\* skipped, and the loop goes on to the next date whatever came of it.
BackfillStep ==
    /\ job.pc = "backfill"
    /\ IF job.date <= job.end_date
       THEN \E fault \in BOOLEAN :
               LET out == compute_stats_for_date(job.date, job.force, fault)
                   raised == fault /\ (job.force \/ ~\E row \in daily : row.date = job.date)
               IN /\ daily' = out.rows
                  /\ job' = [job EXCEPT
                               !.computed_count = IF out.returned THEN @ + 1 ELSE @,
                               !.skipped_count = IF out.returned THEN @ ELSE @ + 1,
                               !.visited = Append(@, job.date),
                               !.faulted = IF raised THEN @ \cup {job.date} ELSE @,
                               !.date = @ + 1]
       ELSE /\ job' = [job EXCEPT !.pc = "done"]
            /\ UNCHANGED daily
    /\ UNCHANGED <<cache, view>>
    /\ UNCHANGED rvars
    /\ UNCHANGED run

NextBackfill == ComputeDays \/ ComputeDaysStep \/ BackfillStart \/ BackfillStep

SpecBackfill == InitBackfill /\ [][NextBackfill]_vars

\* The command, once started, runs on.
FairBackfill == SpecBackfill /\ WF_vars(BackfillStep)

----------------------------------------------------------------------------
(* The dashboard over a history of sessions *)

\* The site on day TrendDays, after sessions on each day since day 0 and one request
\* today; no DailyStats row yet and nothing cached.
InitTrends ==
    /\ sessions = History(0, TrendDays)
    /\ events = EmptyBag
    /\ surveys = {}
    /\ signups = {}
    /\ now = TrendDays
    /\ pc = [w \in Workers |-> "idle"]
    /\ req = [w \in Workers |-> NoReq]
    /\ loc = [w \in Workers |-> NoLoc]
    /\ txn = [w \in Workers |-> NoTxn]
    /\ resp = [w \in Workers |-> NoResp]
    /\ nreq = 1
    /\ log = [w \in Workers |-> {}]
    /\ seen = [w \in Workers |-> {}]
    /\ daily = {}
    /\ cache = <<>>
    /\ job = NoJob
    /\ view = NoView
    /\ run = NoRuns

\* Requests handled one at a time; between them the job runs for a date and the
\* dashboard reads.
NextTrends ==
    \/ \E w \in {"w1"} : Request(w)
    \/ (\A w \in Workers : pc[w] = "idle") /\ (ComputeDate \/ Report \/ Expire)

SpecTrends == InitTrends /\ [][NextTrends]_vars

\* Requests handled one at a time; between them the job runs for a date and the
\* trends are read.
NextSeries ==
    \/ \E w \in {"w1"} : Request(w)
    \/ (\A w \in Workers : pc[w] = "idle") /\ (ComputeDate \/ GetTrends)

SpecSeries == InitTrends /\ [][NextSeries]_vars

----------------------------------------------------------------------------
(* The funnel over two days *)

\* The tables after the first page view of a visitor.
InitFunnel ==
    /\ sessions = [x \in {"u1"} |->
                     [NewSession(0) EXCEPT !.page_views = 1, !.is_bounce = FALSE]]
    /\ events = SetToBag({[session |-> "u1", event_type |-> "page_view", timestamp |-> 0]})
    /\ surveys = {}
    /\ signups = {}
    /\ now = 0
    /\ pc = [w \in Workers |-> "idle"]
    /\ req = [w \in Workers |-> NoReq]
    /\ loc = [w \in Workers |-> NoLoc]
    /\ txn = [w \in Workers |-> NoTxn]
    /\ resp = [w \in Workers |-> NoResp]
    /\ nreq = 1
    /\ log = [w \in Workers |-> {}]
    /\ seen = [w \in Workers |-> {}]
    /\ daily = {}
    /\ cache = <<>>
    /\ job = NoJob
    /\ view = NoView
    /\ run = NoRuns

\* Requests handled one at a time; between them the funnel is read, today and the
\* day after.
NextFunnel ==
    \/ \E w \in {"w1"} : Request(w)
    \/ Midnight
    \/ (\A w \in Workers : pc[w] = "idle") /\ (GetFunnel \/ Expire)

SpecFunnel == InitFunnel /\ [][NextFunnel]_vars

----------------------------------------------------------------------------
(* The job, statement by statement, beside the endpoints *)

\* Two runs of the command, one after the other, while a request is handled.
NextRun ==
    \/ \E w \in {"w1"} : Request(w)
    \/ run["j1"].pc = "idle" /\ Run("j2")
    \/ run["j2"].pc \in {"idle", "done"} /\ Run("j1")

SpecRun == InitVisited /\ [][NextRun]_vars

\* The tables after a first visitor whose only event was leaving the page.
InitBounced ==
    /\ sessions = [x \in {"u2"} |-> NewSession(0)]
    /\ events = SetToBag({[session |-> "u2", event_type |-> "page_exit", timestamp |-> 0]})
    /\ surveys = {}
    /\ signups = {}
    /\ now = 0
    /\ pc = [w \in Workers |-> "idle"]
    /\ req = [w \in Workers |-> NoReq]
    /\ loc = [w \in Workers |-> NoLoc]
    /\ txn = [w \in Workers |-> NoTxn]
    /\ resp = [w \in Workers |-> NoResp]
    /\ nreq = 1
    /\ log = [w \in Workers |-> {}]
    /\ seen = [w \in Workers |-> {}]
    /\ daily = {}
    /\ cache = <<>>
    /\ job = NoJob
    /\ view = NoView
    /\ run = NoRuns

\* The runs of the command after that visitor, while the next request is handled.
SpecRunBounced == InitBounced /\ [][NextRun]_vars

\* Two processes of the command while a request is handled.
NextRuns ==
    \/ \E w \in {"w1"} : Request(w)
    \/ \E j \in Runners : Run(j)

SpecRuns == InitVisited /\ [][NextRuns]_vars

----------------------------------------------------------------------------
(* The whole site *)

\* Both endpoints with concurrent handlers, the job and the dashboard, over several
\* days.
Next ==
    \/ \E w \in Workers : Request(w)
    \/ Midnight
    \/ ComputeDate \/ ComputeDays \/ ComputeDaysStep \/ BackfillStart \/ BackfillStep
    \/ Report \/ GetFunnel \/ GetTrends \/ Expire
    \/ \E j \in Runners : Run(j)

Spec == Init /\ [][Next]_vars

\* A table that already holds one registration, of another visitor's session.
InitRegistered ==
    /\ sessions = [s \in {"u2"} |-> [NewSession(0) EXCEPT !.is_bounce = FALSE]]
    /\ events = EmptyBag
    /\ surveys = {}
    /\ signups = {[session |-> "u2", email |-> <<"a">>, name |-> <<"n">>,
                   created_at |-> 0, by |-> 0]}
    /\ now = 0
    /\ pc = [w \in Workers |-> "idle"]
    /\ req = [w \in Workers |-> NoReq]
    /\ loc = [w \in Workers |-> NoLoc]
    /\ txn = [w \in Workers |-> NoTxn]
    /\ resp = [w \in Workers |-> NoResp]
    /\ nreq = 0
    /\ log = [w \in Workers |-> {}]
    /\ seen = [w \in Workers |-> {}]
    /\ daily = {}
    /\ cache = <<>>
    /\ job = NoJob
    /\ view = NoView
    /\ run = NoRuns

\* Concurrent submissions against it.
SpecRegistered == InitRegistered /\ [][NextSubmit]_vars

\* A session that has answered the survey and has not signed up (a row written by
\* the admin site or by create_test_analytics_data).
InitSurveyed ==
    /\ sessions = [s \in {"u1"} |-> NewSession(0)]
    /\ events = EmptyBag
    /\ surveys = {[session |-> "u1", preference |-> "nothing", time_to_select |-> {},
                   changed_mind_count |-> 0, created_at |-> 0, by |-> 0]}
    /\ signups = {}
    /\ now = 0
    /\ pc = [w \in Workers |-> "idle"]
    /\ req = [w \in Workers |-> NoReq]
    /\ loc = [w \in Workers |-> NoLoc]
    /\ txn = [w \in Workers |-> NoTxn]
    /\ resp = [w \in Workers |-> NoResp]
    /\ nreq = 0
    /\ log = [w \in Workers |-> {}]
    /\ seen = [w \in Workers |-> {}]
    /\ daily = {}
    /\ cache = <<>>
    /\ job = NoJob
    /\ view = NoView
    /\ run = NoRuns

\* Submissions handled one at a time against it, over several days.
SpecSurveyed == InitSurveyed /\ [][NextSerial]_vars

----------------------------------------------------------------------------
(* Properties *)

\* No request is being handled.
Quiescent == \A w \in Workers : pc[w] = "idle"

\* Worker w has answered a request of endpoint op.
Completed(w, op) == pc[w] = "idle" /\ req[w].op = op /\ resp[w] # NoResp

\* The number of FunnelEvent rows of session s with event type t.
EventCount(s, t) ==
    BagCardinality([e \in {f \in BagToSet(events) : f.session = s /\ f.event_type = t}
                      |-> CopiesIn(e, events)])

\* C1: whenever no request is in flight, every Session's page_views equals the
\* number of page_view Event rows recorded for it.
C1_PageViewsEqualEvents ==
    Quiescent =>
        \A s \in DOMAIN sessions : sessions[s].page_views = EventCount(s, "page_view")

\* C2: whenever no request is in flight, a Session for which a page_view or
\* survey_start Event has been recorded has its bounce flag false.
C2_EngagedNotBounce ==
    Quiescent =>
        \A s \in DOMAIN sessions :
            EventCount(s, "page_view") + EventCount(s, "survey_start") > 0
                => ~sessions[s].is_bounce

\* C3: a track_event request whose event_type is outside EVENT_TYPES is answered 400
\* and has changed no row.
C3_UnknownEventTypeRejected ==
    \A w \in Workers :
        (/\ Completed(w, "track")
         /\ req[w].session_id # ""
         /\ req[w].event_type \notin EVENT_TYPES \cup {""})
            => resp[w].status = 400 /\ log[w] = {}

\* C4: a submission from a session that had a ConversionRecord when it arrived is
\* answered duplicate_type "session", whatever its email; a submission of an email
\* registered when it arrived, from a session with no ConversionRecord, is answered
\* duplicate_type "email".
C4_DuplicateTypeReported ==
    \A w \in Workers :
        (Completed(w, "submit") /\ resp[w].kind # "required") =>
            LET sid == loc[w].session_id
                sessionHad == \E g \in seen[w] : g.session = ToUuid(req[w].session_id)
                emailHad == \E g \in seen[w] : IExact(g.email, req[w].email)
                sessionHas == \E g \in signups : g.session = sid
            IN /\ (IsValidUuid(req[w].session_id) /\ sessionHad)
                    => resp[w] = Response(400, "duplicate_session")
               /\ (emailHad /\ ~sessionHas)
                    => resp[w] = Response(400, "duplicate_email")

\* C5 as claimed: a submission answered 400 has changed no row of any table.
C5_RejectionChangesNothing ==
    \A w \in Workers :
        (Completed(w, "submit") /\ resp[w].status = 400) => log[w] = {}

\* C5 as amended: a submission answered 400 for a missing field has changed no row;
\* one answered 400 as a duplicate has changed no SurveyResponse or EarlyAccessSignup
\* row and no Session field but last_activity of the session it resolved to, which
\* it has created if the identifier was unknown.
C5_RejectionChangesOnlyItsSession ==
    \A w \in Workers :
        (Completed(w, "submit") /\ resp[w].status = 400) =>
            /\ resp[w].kind = "required" => log[w] = {}
            /\ log[w] \subseteq {<<"session_created", loc[w].session_id, "">>,
                                 <<"session_field", loc[w].session_id, "last_activity">>}

\* A duplicate rejection that has created its session, and one that has refreshed
\* last_activity.
C5_Witness ==
    \E w \in Workers :
        /\ Completed(w, "submit")
        /\ resp[w] = Response(400, "duplicate_session")
        /\ log[w] = {<<"session_field", loc[w].session_id, "last_activity">>}

\* C6: a submission whose email another submission, of a different session, has
\* registered is answered the duplicate rejection (400, duplicate_type "email"),
\* and exactly one ConversionRecord holds that email.
C6_EmailRaceIsDuplicate ==
    \A w \in Workers :
        (/\ Completed(w, "submit")
         /\ resp[w].kind # "required"
         /\ \E g \in signups : /\ IExact(g.email, req[w].email)
                               /\ g.by # req[w].rid
                               /\ g.session # loc[w].session_id
         /\ ~\E g \in signups : g.session = loc[w].session_id)
            => /\ resp[w] = Response(400, "duplicate_email")
               /\ Cardinality({g \in signups : IExact(g.email, req[w].email)}) = 1

\* What the atomic block of a submission writes to session sid.
TxnEffects(sid) ==
    {<<"survey_written", sid, "">>, <<"signup_created", sid, "">>,
     <<"session_field", sid, "is_bounce">>}

\* C7: in every state, a PreferenceResponse written by a submission comes with that
\* submission's ConversionRecord, and a request has made all the writes of the atomic
\* block (the survey if a preference was given, the record, the bounce flag) and
\* was answered 201, or none of them.
C7_AtomicSubmission ==
    /\ \A v \in surveys : \E g \in signups : g.by = v.by /\ g.session = v.session
    /\ \A w \in Workers :
          LET sid == loc[w].session_id
              done == log[w] \cap {x \in log[w] : x[1] \in {"survey_written", "signup_created"}
                                                  \/ x[3] = "is_bounce"}
          IN \/ done = {}
             \/ /\ Completed(w, "submit")
                /\ resp[w] = Response(201, "success")
                /\ done = TxnEffects(sid) \ (IF req[w].preference = ""
                                            THEN {<<"survey_written", sid, "">>} ELSE {})
                /\ ~sessions[sid].is_bounce

\* A submission with a preference has failed on creating its ConversionRecord (the
\* email taken meanwhile by another session's submission).
C7_Witness ==
    \E w \in Workers :
        /\ Completed(w, "submit")
        /\ resp[w] = Response(500, "error")
        /\ req[w].preference # ""
        /\ \E g \in signups : g.email = req[w].email /\ g.session # loc[w].session_id
        /\ ~\E g \in signups : g.session = loc[w].session_id

\* C8: no two ConversionRecords have emails equal ignoring case or the same Session,
\* and no two PreferenceResponses have the same Session.
C8_Uniqueness ==
    /\ \A g, h \in signups :
          g # h => ~IExact(g.email, h.email) /\ g.session # h.session
    /\ \A v, u \in surveys : v # u => v.session # u.session

\* A registration exists and a submission of the same email was refused by the
\* table's unique constraint.
C8_Witness ==
    \E w \in Workers :
        /\ Completed(w, "submit")
        /\ resp[w] = Response(500, "error")
        /\ \E g \in signups : IExact(g.email, req[w].email) /\ g.by # req[w].rid

\* C9: a track_event request with a malformed session identifier and an event type of
\* EVENT_TYPES is answered 201 and has created exactly one Session, under a generated
\* identifier, and one Event of that session.
C9_MalformedSessionReplaced ==
    \A w \in Workers :
        (/\ Completed(w, "track")
         /\ req[w].session_id # ""
         /\ ~IsValidUuid(req[w].session_id)
         /\ req[w].event_type \in EVENT_TYPES)
            => /\ resp[w] = Response(201, "success")
               /\ loc[w].session_id \in GeneratedUuids
               /\ {x \in log[w] : x[1] = "session_created"}
                     = {<<"session_created", loc[w].session_id, "">>}
               /\ {x \in log[w] : x[1] = "event_created"}
                     = {<<"event_created", loc[w].session_id, req[w].event_type>>}

\* C10: a track_event request without session_id or without event_type is answered
\* 400 and has changed no row.
C10_MissingFieldRejected ==
    \A w \in Workers :
        (pc[w] = "idle" /\ req[w].op = "track"
         /\ (req[w].session_id = "" \/ req[w].event_type = ""))
            => resp[w] = Response(400, "required") /\ log[w] = {}

\* Such a request has been answered while the tables hold rows.
C10_Witness ==
    \E w \in Workers :
        /\ Completed(w, "track")
        /\ req[w].session_id = "" \/ req[w].event_type = ""
        /\ sessions # <<>>
        /\ events # EmptyBag

\* C11: a page_exit request whose metadata is absent, is not a map, or carries a
\* time_on_page of the wrong type is answered 201, has appended its Event and has
\* left time_on_site as it was.
C11_BadMetadataHarmless ==
    \A w \in Workers :
        (/\ Completed(w, "track")
         /\ req[w].session_id # ""
         /\ req[w].event_type = "page_exit"
         /\ req[w].metadata.time_on_page # "int")
            => /\ resp[w] = Response(201, "success")
               /\ <<"event_created", loc[w].session_id, "page_exit">> \in log[w]
               /\ <<"session_field", loc[w].session_id, "time_on_site">> \notin log[w]

\* C20: when the only two requests so far are track_event requests of the same valid
\* session identifier, both are answered 201, the Session row exists and both Events
\* belong to it.
C20_ConcurrentFirstEvents ==
    (/\ Quiescent
     /\ nreq = 2
     /\ \A w \in Workers :
           /\ Completed(w, "track")
           /\ req[w].session_id = "u1"
           /\ req[w].event_type \in EVENT_TYPES
           /\ ~MetricsRaise(req[w].event_type, req[w].metadata))
        => /\ \A w \in Workers : resp[w] = Response(201, "success")
           /\ "u1" \in DOMAIN sessions
           /\ BagCardinality([e \in {f \in BagToSet(events) : f.session = "u1"}
                                |-> CopiesIn(e, events)]) = 2

\* C12: a submission with valid fields that duplicates no registration is answered
\* 201; a submission answered 201 has created exactly one ConversionRecord, linked to
\* the session it resolved to; if it gave a preference, that session has exactly one
\* PreferenceResponse, holding the submitted preference, time to select and change
\* count, whatever it held before, and otherwise its PreferenceResponse is untouched;
\* and the session's bounce flag is false.
C12_SuccessfulSubmission ==
    \A w \in Workers :
        Completed(w, "submit") =>
            LET sid == loc[w].session_id
                r == req[w]
                mine == {g \in signups : g.by = r.rid}
                answers == {v \in surveys : v.session = sid}
            IN /\ (/\ resp[w].kind # "required"
                   /\ ~\E g \in seen[w] :
                         \/ IExact(g.email, r.email)
                         \/ IsValidUuid(r.session_id) /\ g.session = ToUuid(r.session_id))
                      => resp[w] = Response(201, "success")
               /\ resp[w] = Response(201, "success") =>
                     /\ Cardinality(mine) = 1
                     /\ \A g \in mine :
                           g.session = sid /\ g.email = r.email /\ g.name = r.name
                     /\ {g \in signups : g.session = sid} = mine
                     /\ sid \in DOMAIN sessions /\ ~sessions[sid].is_bounce
                     /\ IF r.preference # ""
                        THEN /\ Cardinality(answers) = 1
                             /\ \A v \in answers :
                                   /\ v.preference = r.preference
                                   /\ v.time_to_select = r.selection.time_to_select
                                   /\ v.changed_mind_count = r.selection.changes_made
                        ELSE <<"survey_written", sid, "">> \notin log[w]

\* A submission with a preference has succeeded for the session that had answered
\* "nothing" before, and the answer is overwritten.
C12_Witness ==
    \E w \in Workers :
        /\ Completed(w, "submit")
        /\ resp[w] = Response(201, "success")
        /\ loc[w].session_id = "u1"
        /\ req[w].preference = "updates"
        /\ \E v \in surveys : v.session = "u1" /\ v.by = req[w].rid /\ v.preference = "updates"
        /\ ~\E v \in surveys : v.preference = "nothing"

\* x is num / den rounded to a whole number.
Nearest(x, num, den) ==
    LET d == x * den - num IN 2 * (IF d < 0 THEN -d ELSE d) <= den

\* The rates GetConversionRates has returned.
RatesReturned == view.op = "rates" /\ view.done

\* C13: GetConversionRates raises for no funnel, and its result has the key of a rate
\* exactly when the step count the rate divides by is not zero.
C13_NoZeroDenominator ==
    RatesReturned =>
        LET f == view.funnel
            keys == DOMAIN view.result.rates
        IN /\ ~view.result.raised
           /\ ("page_to_survey" \in keys) = (f.page_views # 0)
           /\ ("overall" \in keys) = (f.page_views # 0)
           /\ ("survey_completion" \in keys) = (f.surveys_started # 0)
           /\ ("survey_to_form" \in keys) = (f.surveys_completed # 0)
           /\ ("signup_success" \in keys) = (f.signup_attempts # 0)
           /\ keys \subseteq {"page_to_survey", "overall", "survey_completion",
                              "survey_to_form", "signup_success"}

\* The rates of the all-zero funnel have been asked for.
C13_Witness ==
    /\ RatesReturned
    /\ \A k \in DOMAIN view.funnel \ {"total_sessions"} : view.funnel[k] = 0
    /\ view.result.rates = <<>>

\* C14: every rate returned is 100 times the ratio of its two funnel counts, rounded
\* to two decimals; 10 page views, survey starts and survey completions with 6
\* conversions give survey_completion 100.00 and overall 60.00.
C14_RatesAreRoundedRatios ==
    RatesReturned =>
        LET f == view.funnel
            r == view.result.rates
            is(k, num, den) == k \in DOMAIN r => Nearest(r[k], 10000 * num, den)
        IN /\ is("page_to_survey", f.surveys_started, f.page_views)
           /\ is("survey_completion", f.surveys_completed, f.surveys_started)
           /\ is("survey_to_form", f.forms_started, f.surveys_completed)
           /\ is("signup_success", f.successful_signups, f.signup_attempts)
           /\ is("overall", f.conversions, f.page_views)
           /\ (/\ f.page_views = 10 /\ f.surveys_started = 10
               /\ f.surveys_completed = 10 /\ f.conversions = 6)
                 => r["survey_completion"] = 10000 /\ r["overall"] = 6000

\* The rates of the example funnel, with a rate that needs rounding (1 of 6).
C14_Witness ==
    /\ RatesReturned
    /\ view.funnel.page_views = 10 /\ view.funnel.surveys_started = 10
    /\ view.funnel.surveys_completed = 10 /\ view.funnel.conversions = 6
    /\ view.funnel.signup_attempts = 6 /\ view.funnel.successful_signups = 1
    /\ view.result.rates["signup_success"] = 1667

\* C19: GetPreferenceBreakdown gives each preference value that occurs its share of
\* all responses as a percentage rounded to one decimal, and the mean of the weights
\* of the responses (nothing, no_wouldnt_use 0; notification, not_sure 1; updates,
\* yes_would_use 2) rounded to two decimals; 1 nothing, 1 notification and 2 updates
\* give 25.0, 25.0, 50.0 and 1.25; no response gives 0 and no percentage.
C19_PreferenceBreakdown ==
    (view.op = "preferences" /\ view.done) =>
        LET c == view.counts
            b == view.result
            total == c.nothing + c.notification + c.updates
                        + c.yes_would_use + c.not_sure + c.no_wouldnt_use
            weight == c.notification + c.not_sure + 2 * (c.updates + c.yes_would_use)
        IN /\ b.total_responses = total
           /\ DOMAIN b.percentages = {k \in DOMAIN c : c[k] > 0}
           /\ \A k \in DOMAIN b.percentages : Nearest(b.percentages[k], 1000 * c[k], total)
           /\ total > 0 => Nearest(b.engagement_score, 100 * weight, total)
           /\ total = 0 => b.engagement_score = 0 /\ b.percentages = <<>>
           /\ (c = [nothing |-> 1, notification |-> 1, updates |-> 2,
                    yes_would_use |-> 0, not_sure |-> 0, no_wouldnt_use |-> 0])
                 => /\ b.percentages = [nothing |-> 250, notification |-> 250, updates |-> 500]
                    /\ b.engagement_score = 125

\* The breakdown of the example counts.
C19_Witness ==
    /\ view.op = "preferences" /\ view.done
    /\ view.counts = [nothing |-> 1, notification |-> 1, updates |-> 2,
                      yes_would_use |-> 0, not_sure |-> 0, no_wouldnt_use |-> 0]
    /\ view.result.engagement_score = 125

----------------------------------------------------------------------------
(* Properties of the aggregation job *)

\* The row of a date with its time of writing left out.
Counts(row) == [row EXCEPT !.updated_at = 0]

\* C16: a run of the job for a date without force, when the row of the date exists,
\* leaves the DailyStats table as it is and returns False (not computed), whatever
\* has happened to the raw tables since the row was written.
C16_ExistingRowNotRecomputed ==
    [][(/\ job' # job
        /\ job'.op = "date"
        /\ ~job'.force
        /\ \E row \in daily : row.date = job'.date)
       => (daily' = daily /\ ~job'.returned)]_vars

\* A run without force has found a row whose counts the raw tables no longer give.
C16_Witness ==
    /\ job.op = "date" /\ ~job.force /\ ~job.returned
    /\ \E row \in daily :
          /\ row.date = job.date
          /\ row.page_views # calculate_daily_metrics(job.date).page_views

\* C17: a second forced run for a date, with no change of the raw tables since the
\* first, leaves the same counts and rates in the row of the date, and the date
\* still has exactly one row.
C17_ForcedRunIdempotent ==
    [][(job' # job /\ job'.again)
       => (/\ {Counts(row) : row \in daily'} = {Counts(row) : row \in daily}
           /\ Cardinality({row \in daily' : row.date = job'.date}) = 1)]_vars

\* The second forced run came a day after the first, over a row with a rate.
C17_Witness ==
    /\ job.again
    /\ \E row \in daily :
          /\ row.date = job.date
          /\ row.updated_at > row.date
          /\ row.page_conversion_rate # {}

\* The date of the earliest session.
EarliestDate ==
    CHOOSE d \in {sessions[x].first_seen : x \in DOMAIN sessions} :
        \A x \in DOMAIN sessions : d <= sessions[x].first_seen

\* The dates a..b in ascending order.
Ascending(a, b) == [i \in 1..(b - a + 1) |-> a + i - 1]

\* What the backfill has done so far is what the loop should have done up to the
\* date it stands at: each date from the earliest session's on, once, in ascending
\* order, counted as computed or as skipped, and skipped if its computation faulted.
BackfillInOrder ==
    (job.op = "backfill" /\ DOMAIN sessions # {})
    => /\ job.visited = Ascending(EarliestDate, job.date - 1)
       /\ job.computed_count + job.skipped_count = Len(job.visited)
       /\ job.skipped_count =
              Cardinality(job.faulted
                          \cup (IF job.force THEN {}
                                ELSE {d \in job.existing : EarliestDate <= d /\ d < job.date}))
       /\ job.pc = "done" => job.date = Max(EarliestDate, now)

\* C18: the backfill terminates, having invoked compute_stats_for_date once for each
\* date from the earliest session's date through yesterday in ascending order; a
\* fault on a date does not stop the loop, and the date is counted as skipped: a
\* fault on day 3 of 7 leaves 6 computed and 1 skipped.
C18_BackfillCoversEveryDate ==
    /\ [](BackfillInOrder
          /\ ((/\ job.op = "backfill" /\ job.pc = "done"
               /\ Len(job.visited) = 7 /\ job.faulted = {job.visited[3]}
               /\ (job.force \/ job.existing = {}))
              => (job.computed_count = 6 /\ job.skipped_count = 1)))
    /\ (job.pc = "backfill" ~> job.pc = "done")

\* A backfill of seven dates has ended after a fault on the third.
C18_Witness ==
    /\ job.op = "backfill" /\ job.pc = "done"
    /\ Len(job.visited) = 7 /\ job.faulted = {job.visited[3]}
    /\ job.existing = {}
    /\ job.computed_count = 6 /\ job.skipped_count = 1
    /\ Cardinality(daily) = 6

\* The sessions of the daily trend of the last dashboard call, summed over its range.
TrendSessions ==
    SumOver([i \in DOMAIN view.trends |-> view.trends[i].sessions], DOMAIN view.trends)

\* C15 as stated: whenever every date of the range has a DailyStats row, the sessions
\* of the daily trend sum to total_sessions of the conversion funnel of the range.
C15_TrendsSumToFunnel ==
    (/\ view.op = "report"
     /\ \A d \in view.start..view.end : \E row \in daily : row.date = d)
    => TrendSessions = view.funnel.total_sessions

\* C15: whenever every date of the range has a DailyStats row written after the date
\* had ended, and the funnel was computed from the tables and not served from the
\* cache, the sessions of the daily trend sum to total_sessions of the funnel.
C15_SettledTrendsSumToFunnel ==
    (/\ view.op = "report"
     /\ ~view.cached
     /\ \A d \in view.start..view.end :
           \E row \in daily : row.date = d /\ row.updated_at > d)
    => TrendSessions = view.funnel.total_sessions

\* A dashboard call over two days, each with a row written after it had ended, and
\* more than one session a day between them.
C15_Witness ==
    /\ view.op = "report"
    /\ ~view.cached
    /\ view.start < view.end
    /\ \A d \in view.start..view.end :
          \E row \in daily : row.date = d /\ row.updated_at > d
    /\ TrendSessions >= 2
    /\ TrendSessions = view.funnel.total_sessions

----------------------------------------------------------------------------
(* Properties of the later claims *)

\* C21: the step that saves the session of an accepted page_exit with an integer
\* time_on_page leaves time_on_site at the maximum of the value the row had and
\* time_on_page // 1000, and no step of any handler lowers the time_on_site of a
\* session.
C21_TimeOnSiteMonotone ==
    [][/\ \A w \in Workers :
            (/\ pc[w] = "save_session" /\ pc'[w] = "idle"
             /\ req[w].event_type = "page_exit"
             /\ req[w].metadata.kind = "dict" /\ req[w].metadata.time_on_page = "int"
             /\ resp'[w] = Response(201, "success"))
            => sessions'[loc[w].session_id].time_on_site =
                  Max(sessions[loc[w].session_id].time_on_site,
                      req[w].metadata.ms \div 1000)
       /\ \A x \in DOMAIN sessions \cap DOMAIN sessions' :
            sessions'[x].time_on_site >= sessions[x].time_on_site]_vars

\* C22 as stated: the conversions of a funnel computed from the tables are the
\* sessions with a signup created within the range.
C22_ConversionsBySignupDate ==
    (view.op = "funnel" /\ ~view.cached)
    => view.funnel.conversions =
          Cardinality({x \in DOMAIN sessions :
                         \E g \in signups : g.session = x
                                            /\ g.created_at \in view.start..view.end})

\* C22: the conversions of a funnel computed from the tables are the sessions first
\* seen within the range that have a signup, whenever the signup was created.
C22_ConversionsBySessionDate ==
    (view.op = "funnel" /\ ~view.cached)
    => view.funnel.conversions =
          Cardinality({g \in signups :
                         sessions[g.session].first_seen \in view.start..view.end})

\* A funnel of the day a session was first seen, read after the session signed up on
\* the day after: the signup is counted.
C22_Witness ==
    /\ view.op = "funnel" /\ ~view.cached
    /\ view.funnel.conversions = 1
    /\ \E g \in signups : /\ sessions[g.session].first_seen \in view.start..view.end
                           /\ g.created_at > view.end

\* C23: a funnel call for a range whose exact range has an entry in the cache returns
\* the entry's value and leaves the cache alone; a call for a range without an entry
\* (no earlier call, another range, or the entry expired) returns the funnel computed
\* from the tables as they are and stores it for that range; and no write of a
\* session, event, survey or signup changes or removes an entry.
C23_CachedFunnelServed ==
    [][/\ view'.op = "funnel"
          => LET k == <<"funnel", view'.start, view'.end>>
             IN IF k \in DOMAIN cache
                THEN view'.funnel = cache[k].value /\ cache' = cache
                ELSE /\ view'.funnel = ComputedFunnel(view'.start, view'.end)
                     /\ DOMAIN cache' = DOMAIN cache \cup {k}
                     /\ cache'[k].value = view'.funnel
                     /\ \A j \in DOMAIN cache : cache'[j] = cache[j]
       /\ <<sessions, events, surveys, signups>>' # <<sessions, events, surveys, signups>>
          => cache' = cache]_vars

\* A call was served a funnel from the cache that the tables no longer give.
C23_Witness ==
    /\ view.op = "funnel" /\ view.cached
    /\ view.funnel # ComputedFunnel(view.start, view.end)
    /\ view.funnel.total_sessions < ComputedFunnel(view.start, view.end).total_sessions

\* The rate num/den as calculate_rates stores it, in hundredths of a percent: no
\* value while there is nothing to divide by or, where zero is given, nothing to
\* divide.
RateOf(rate, num, den, zero) ==
    IF den > 0 /\ (zero \/ num > 0)
    THEN \E v \in rate : rate = {v} /\ Nearest(v, 10000 * num, den)
    ELSE rate = {}

RatesMatchCounts(row) ==
    /\ RateOf(row.click_through_rate, row.ad_clicks, row.ad_impressions, TRUE)
    /\ RateOf(row.overall_conversion_rate, row.signups, row.ad_impressions, FALSE)
    /\ RateOf(row.page_conversion_rate, row.signups, row.page_views, FALSE)
    /\ RateOf(row.survey_completion_rate, row.surveys_completed, row.surveys_started,
              FALSE)

\* C25: when a run of the command fails at a statement of its atomic block, the rows
\* of its date in the table are the ones that were there when it started; the table
\* changes only when a run commits; and no row of the table ever has rates that its
\* counts do not give.
C25_FailedRunLeavesRow ==
    [][/\ \A j \in Runners :
            (run'[j].raised /\ ~run[j].raised)
            => /\ daily' = daily
               /\ {row \in daily' : row.date = run[j].date} = run[j].before
       /\ daily' # daily
          => \E j \in Runners : run[j].pc = "commit" /\ run'[j].returned
       /\ \A row \in daily' : RatesMatchCounts(row)]_vars

\* A forced run over a row with earlier counts has failed after its update_or_create.
C25_Witness ==
    \E j \in Runners :
        /\ run[j].raised
        /\ run[j].target # {}
        /\ run[j].before # {}
        /\ RowsOf(run[j].date) = run[j].before
        /\ \E row \in run[j].before, stats \in run[j].stats :
              row.page_views # stats.page_views

C30_BounceRateInRange ==
    \A row \in daily : \A v \in row.bounce_rate : 0 <= v /\ v <= 10000

\* C27: the daily trends of a range are one bucket for each date of the range, first
\* to last, in ascending order of date, each with exactly the keys date, sessions,
\* signups and conversion_rate whether or not the date has a DailyStats row; a call
\* with hourly also returns, and a call with any other granularity raises.
C27_DailyTrendsShape ==
    view.op = "trends"
    => IF view.granularity = "daily"
       THEN /\ ~view.result.raised
            /\ Len(view.result.trends) = view.end - view.start + 1
            /\ \A i \in 1..Len(view.result.trends) :
                  /\ view.result.trends[i].date = view.start + i - 1
                  /\ DOMAIN view.result.trends[i] =
                         {"date", "sessions", "signups", "conversion_rate"}
       ELSE view.result.raised <=> view.granularity # "hourly"

\* Daily trends of three dates, some with a DailyStats row and some without.
C27_Witness ==
    /\ view.op = "trends" /\ view.granularity = "daily"
    /\ Len(view.result.trends) = 3
    /\ \E d \in view.start..view.end : RowsOf(d) # {}
    /\ \E d \in view.start..view.end : RowsOf(d) = {}

\* C28: the issues of identify_drop_off_points are, once each, the steps
\* page_to_survey (25), survey_completion (70), survey_to_form (60) and
\* signup_success (90) that have a rate and whose rate is strictly below the
\* benchmark, each with the benchmark less the rate as its gap; the
\* recommendations are one per issue, the fixed one of its step, in the order of
\* the issues; overall_health is "good" exactly when there is at most one issue and
\* "needs_attention" otherwise.
C28_DropOffIssues ==
    (view.op = "drop_off" /\ view.done)
    => LET found == view.result.issues
           low == {k \in {"page_to_survey", "survey_completion", "survey_to_form",
                          "signup_success"} :
                     /\ k \in DOMAIN view.rates
                     /\ view.rates[k] < (CASE k = "page_to_survey" -> 2500
                                          [] k = "survey_completion" -> 7000
                                          [] k = "survey_to_form" -> 6000
                                          [] k = "signup_success" -> 9000)}
       IN /\ {found[i].step : i \in DOMAIN found} = low
          /\ Len(found) = Cardinality(low)
          /\ \A i \in DOMAIN found :
                /\ found[i].actual_rate = view.rates[found[i].step]
                /\ found[i].gap = found[i].benchmark - found[i].actual_rate
                /\ found[i].gap > 0
          /\ Len(view.result.recommendations) = Len(found)
          /\ \A i \in DOMAIN found :
                view.result.recommendations[i] = recommendation[found[i].step]
          /\ view.result.overall_health \in {"good", "needs_attention"}
          /\ view.result.overall_health = "good" <=> Len(found) <= 1

\* Two issues at least, and a step whose rate is its benchmark exactly.
C28_Witness ==
    /\ view.op = "drop_off" /\ view.done
    /\ Len(view.result.issues) >= 2
    /\ "survey_to_form" \in DOMAIN view.rates /\ view.rates["survey_to_form"] = 6000
    /\ view.result.overall_health = "needs_attention"

\* C29: get_traffic_attribution has one entry for each distinct utm_source of the
\* sessions first seen in the range, named "Direct" for the empty source; the
\* sessions and conversions of the entry are the numbers of the sessions of the
\* source and of those of them with a signup; the sessions of the entries add up
\* to the sessions in the range; top_converting_source is an entry of the greatest
\* conversion rate, and none when the range has no session.
C29_AttributionBySource ==
    (view.op = "attribution" /\ view.done)
    => LET rows == {i \in DOMAIN view.table :
                      view.table[i].first_seen \in view.start..view.end}
           distinct == {view.table[i].utm_source : i \in rows}
           entries == view.result.sources
           top == view.result.top_converting_source
       IN /\ Len(entries) = Cardinality(distinct)
          /\ \A v \in distinct : \E i \in DOMAIN entries :
                /\ entries[i].source = (IF v = "" THEN "Direct" ELSE v)
                /\ entries[i].sessions =
                      Cardinality({r \in rows : view.table[r].utm_source = v})
                /\ entries[i].conversions =
                      Cardinality({r \in rows : view.table[r].utm_source = v
                                                /\ view.table[r].signup})
          /\ SumOver([i \in DOMAIN entries |-> entries[i].sessions], DOMAIN entries)
                = Cardinality(rows)
          /\ (rows = {}) <=> (top = {})
          /\ \A t \in top :
                /\ \E i \in DOMAIN entries : entries[i] = t
                /\ \A i \in DOMAIN entries :
                      entries[i].conversion_rate <= t.conversion_rate

\* Two sources in the range, one of them the empty one, of different rates, and a
\* session outside the range.
C29_Witness ==
    /\ view.op = "attribution" /\ view.done
    /\ Len(view.result.sources) = 2
    /\ \E i \in DOMAIN view.table :
          view.table[i].utm_source = "" /\ view.table[i].first_seen = view.start
    /\ \E i \in DOMAIN view.table : view.table[i].first_seen > view.end
    /\ view.result.sources[1].conversion_rate # view.result.sources[2].conversion_rate

============================================================================
